---- MODULE Spec2Model ----
(***************************************************************************)
(* Model of the crawl engine of cheap-crawler (src/src/crawler.js):        *)
(* the BrowserLaunchLimiter semaphore, processUrl (the Page Fetcher) and   *)
(* scrapeWebsite (the Crawl Session), with several sessions sharing the    *)
(* module-level browserLaunchLimiter.                                      *)
(*                                                                         *)
(* JavaScript runs each synchronous stretch of code to completion; the     *)
(* actions below are the stretches between two awaits.                     *)
(***************************************************************************)
EXTENDS Integers, Sequences, FiniteSets, TLC

(***************************************************************************)
(* Bounds of the model and constants of the program                        *)
(***************************************************************************)
LimiterCapacity == 5      \* new BrowserLaunchLimiter(5)
maxConcurrency == 3       \* pages processed concurrently by one session
DefaultMaxPages == 10     \* scrapeWebsite(url, maxPages = 10)
MaxMaxPages == 3          \* largest explicit page budget tried (besides the default)
MaxCapacity == 2          \* largest capacity of a separately constructed limiter
NumCallers == 3           \* callers of a separately constructed limiter
MaxAcquires == 2          \* acquire() calls per caller of a separately constructed limiter

Sessions == 1..(LimiterCapacity + 1)   \* one session more than there are permits
Callers == 1..NumCallers

(***************************************************************************)
(* URLs.  A URL string is modelled by its parts; frag = TRUE stands for a  *)
(* spelling that carries a "#fragment".  BadUrl is a string that           *)
(* `new URL(url)` rejects.                                                 *)
(***************************************************************************)
Url(pr, h, p, f) == [proto |-> pr, hostname |-> h, path |-> p, frag |-> f]
P(n) == Url("http", "a", n, FALSE)
X(n) == Url("http", "x", n, FALSE)
WithFrag(u) == [u EXCEPT !.frag = TRUE]
BadUrl == Url("", "", 0, FALSE)

\* CanParse that takes any string for a URL
CanParseAny(u) == TRUE

\* new URL(url) succeeds
CanParse(u) == u.proto # ""

(***************************************************************************)
(* The site: the resolved href of every a[href] of a page, in document     *)
(* order.  Host "a": page 0 and page 1 link to each other (a cycle),       *)
(* pages 1 and 2 both link to page 3, page 4 has no links, page 5 links to *)
(* five pages of its host.  Host "x" is another site.                      *)
(***************************************************************************)
Anchors(u) ==
    IF u.hostname = "a" THEN
        CASE u.path = 0 -> << P(1), WithFrag(P(1)), X(0), P(2),
                              Url("ftp", "a", 9, FALSE), P(0) >>
          [] u.path = 1 -> << P(0), P(2), P(3) >>
          [] u.path = 2 -> << P(3), WithFrag(P(0)), X(1) >>
          [] u.path = 3 -> << X(1), P(4) >>
          [] u.path = 5 -> << P(0), P(1), P(2), P(3), P(4) >>
          [] OTHER      -> << >>
    ELSE IF u.hostname = "x" THEN
        CASE u.path = 0 -> << P(0), X(1), WithFrag(X(0)) >>
          [] OTHER      -> << >>
    ELSE << >>

\* membership in a sequence (Array.prototype.includes)
Includes(seq, e) == \E i \in 1..Len(seq) : seq[i] = e
Range(seq) == { seq[i] : i \in 1..Len(seq) }

\* TheOnly({ e : v \in {x} }) is e with v naming the value of x; TLC then
\* evaluates x once, however often e uses it
TheOnly(S) == CHOOSE x \in S : TRUE

\* [...new Set(list)]: duplicates removed, first occurrences kept in order
RECURSIVE Dedup(_)
Dedup(seq) ==
    IF seq = << >> THEN << >>
    ELSE TheOnly({ IF Includes(front, seq[Len(seq)]) THEN front
                   ELSE Append(front, seq[Len(seq)])
                   : front \in { Dedup(SubSeq(seq, 1, Len(seq) - 1)) } })

\* SameDomainHttp without the hostname comparison
AnyDomainHttp(u, baseHostname) == u.proto \in {"http", "https"}

\* the test of one anchor in extractSameDomainLinks
SameDomainHttp(u, baseHostname) ==
    u.hostname = baseHostname /\ u.proto \in {"http", "https"}

\* urlObj.href.split("#")[0]
StripHash(u) == [u EXCEPT !.frag = FALSE]

RECURSIVE ExtractedLinks(_, _)
ExtractedLinks(anchors, baseHostname) ==
    IF anchors = << >> THEN << >>
    ELSE LET rest == ExtractedLinks(Tail(anchors), baseHostname)
         IN IF SameDomainHttp(Head(anchors), baseHostname)
            THEN << StripHash(Head(anchors)) >> \o rest
            ELSE rest

\* extractSameDomainLinks(page, baseUrl) when page.evaluate succeeds
extractSameDomainLinks(pageUrl, baseUrl) ==
    Dedup(ExtractedLinks(Anchors(pageUrl), baseUrl.hostname))

(***************************************************************************)
(* State                                                                   *)
(***************************************************************************)
VARIABLES
    maxConcurrent,   \* BrowserLaunchLimiter.maxConcurrent
    activeLaunches,  \* BrowserLaunchLimiter.activeLaunches
    waitQueue,       \* BrowserLaunchLimiter.waitQueue: the suspended callers, oldest first
    pc,              \* where each scrapeWebsite call (or limiter caller) stands
    url,             \* scrapeWebsite's argument url
    maxPages,        \* scrapeWebsite's argument maxPages
    urlQueue,        \* scrapeWebsite's local urlQueue
    visitedUrls,     \* scrapeWebsite's local visitedUrls
    scrapedData,     \* scrapeWebsite's local scrapedData (the url of each page record)
    urlsToProcess,   \* the batch handed to Promise.all
    fetch,           \* the processUrl call of each batch entry: [st, res]
    browser,         \* the session's browser: "none", "open" or "closed"
    fault,           \* TRUE once a processUrl promise of the session has rejected
    result,          \* the value scrapeWebsite returned
    error,           \* the error scrapeWebsite threw
    grants,          \* history: acquire() promises resolved, per caller
    releases,        \* history: release() calls, per caller
    dispatched,      \* history: URLs whose processUrl went on to open a page
    settled          \* history: processUrl calls in the order they settled

limiterVars == << maxConcurrent, activeLaunches, waitQueue >>
sessionVars == << url, maxPages, urlQueue, visitedUrls, scrapedData,
                  urlsToProcess, fetch, browser, fault, result, error >>
historyVars == << grants, releases, dispatched, settled >>
crawlVars == << limiterVars, pc, sessionVars, historyVars >>

\* the servers in front of the crawl engine (src/unnamed/part_003, part_004)
VARIABLES
    server,                   \* the program that runs: "direct" (in-process queue) or "queue" (job queue and worker)
    MAX_CONCURRENT_REQUESTS,  \* direct server: the limit read from the environment
    activeRequests,           \* the server's counter of requests being handled
    requestQueue,             \* direct server: the requests waiting for a slot, oldest first
    req,                      \* every POST /scrape: [st, body, status, response, crawls]
    jobs,                     \* job queue: the waiting jobs, oldest first
    job,                      \* job queue: the job of each request: [st, data, attemptsMade, returnvalue]
    worker                    \* the job the worker processes, 0 when it is idle

httpVars == << server, MAX_CONCURRENT_REQUESTS, activeRequests, requestQueue,
               req, jobs, job, worker >>

\* removeCookieSections applied to a text on its own
VARIABLES
    rawText,       \* the argument of removeCookieSections
    cleanedText    \* what it returned, once it has

filterVars == << rawText, cleanedText >>

outerVars == << httpVars, filterVars >>
vars == << crawlVars, outerVars >>

NoResult == [pagesScraped |-> -1, urls |-> << >>]

(***************************************************************************)
(* BrowserLaunchLimiter                                                    *)
(***************************************************************************)
\* AcquireGrants off by one (<= for <)
AcquireGrantsOffByOne(active, capacity) == active <= capacity

\* AcquireGrants that never suspends a caller
AcquireGrantsAlways(active, capacity) == TRUE

\* acquire(): the test that grants the permit at once
AcquireGrants(active, capacity) == active < capacity

\* release(): activeLaunches after the call
ReleaseActive(active, queue) ==
    IF Len(queue) > 0 THEN (active - 1) + 1 ELSE active - 1

\* release(): waitQueue after the call (waitQueue.shift())
ReleaseQueue(queue) == IF Len(queue) > 0 THEN Tail(queue) ELSE queue

\* ReleasePc that resumes nobody: the resolver taken from waitQueue is not called
ReleasePcForgets(p, queue) == p

\* ReleasePc that resumes the caller that came last (pop for shift)
ReleasePcNewest(p, queue) ==
    IF Len(queue) > 0 THEN [p EXCEPT ![queue[Len(queue)]] = "acquired"] ELSE p

\* release(): nextResolve() resumes the caller that waited longest
ReleasePc(p, queue) ==
    IF Len(queue) > 0 THEN [p EXCEPT ![Head(queue)] = "acquired"] ELSE p

ReleaseGrants(g, queue) ==
    IF Len(queue) > 0 THEN [g EXCEPT ![Head(queue)] = @ + 1] ELSE g

(***************************************************************************)
(* scrapeWebsite: the loop body as operators                               *)
(***************************************************************************)
\* PullBatch with the budget test off by one (<= for <)
RECURSIVE PullBatchOverBudget(_, _, _, _, _)
PullBatchOverBudget(queue, batch, visited, scrapedLen, budget) ==
    TheOnly({
        IF /\ Len(b) < maxConcurrency
           /\ Len(q) > 0
           /\ scrapedLen + Len(b) <= budget
        THEN PullBatchOverBudget(Tail(q),
                 IF Head(q) \notin visited THEN Append(b, Head(q)) ELSE b,
                 visited, scrapedLen, budget)
        ELSE [queue |-> q, batch |-> b]
        : q \in {queue}, b \in {batch} })

\* PullBatch that takes the newest URL of the queue (pop for shift)
RECURSIVE PullBatchNewestFirst(_, _, _, _, _)
PullBatchNewestFirst(queue, batch, visited, scrapedLen, budget) ==
    TheOnly({
        IF /\ Len(b) < maxConcurrency
           /\ Len(q) > 0
           /\ scrapedLen + Len(b) < budget
        THEN PullBatchNewestFirst(SubSeq(q, 1, Len(q) - 1),
                 IF q[Len(q)] \notin visited THEN Append(b, q[Len(q)]) ELSE b,
                 visited, scrapedLen, budget)
        ELSE [queue |-> q, batch |-> b]
        : q \in {queue}, b \in {batch} })

\* the inner while loop that fills urlsToProcess (q, b: urlQueue and
\* urlsToProcess at the loop test; Head(q) is nextUrl)
RECURSIVE PullBatch(_, _, _, _, _)
PullBatch(queue, batch, visited, scrapedLen, budget) ==
    TheOnly({
        IF /\ Len(b) < maxConcurrency
           /\ Len(q) > 0
           /\ scrapedLen + Len(b) < budget
        THEN PullBatch(Tail(q),
                 IF Head(q) \notin visited THEN Append(b, Head(q)) ELSE b,
                 visited, scrapedLen, budget)
        ELSE [queue |-> q, batch |-> b]
        : q \in {queue}, b \in {batch} })

NewFetch == [st |-> "newPage", res |-> "none"]
SkippedFetch == [st |-> "fulfilled", res |-> "null"]

\* Dispatch without visitedUrls.add(url)
DispatchNoMark(batch, visited) ==
    [visited |-> visited,
     fetch   |-> [i \in 1..Len(batch) |->
                     IF batch[i] \in visited THEN SkippedFetch ELSE NewFetch],
     opened  |-> SelectSeq(batch, LAMBDA u : u \notin visited)]

\* processUrl up to its first await, for every entry of the batch in order:
\* a visited URL returns null, any other is marked visited and opens a page
RECURSIVE Dispatch(_, _)
Dispatch(batch, visited) ==
    IF batch = << >> THEN [visited |-> visited, fetch |-> << >>, opened |-> << >>]
    ELSE TheOnly({
        IF Head(b) \in v
        THEN TheOnly({ [visited |-> rest.visited,
                        fetch   |-> << SkippedFetch >> \o rest.fetch,
                        opened  |-> rest.opened]
                       : rest \in { Dispatch(Tail(b), v) } })
        ELSE TheOnly({ [visited |-> rest.visited,
                        fetch   |-> << NewFetch >> \o rest.fetch,
                        opened  |-> << Head(b) >> \o rest.opened]
                       : rest \in { Dispatch(Tail(b), v \cup {Head(b)}) } })
        : b \in {batch}, v \in {visited} })

\* WantsLinks that stops extracting links one page early
WantsLinksLate(scrapedLen, budget) == scrapedLen + 2 < budget

\* processUrl: links are extracted only while scrapedData.length + 1 < maxPages
WantsLinks(scrapedLen, budget) == scrapedLen + 1 < budget

\* result.links of a fulfilled processUrl call
ResultLinks(u, res, baseUrl) ==
    IF res = "links" THEN extractSameDomainLinks(u, baseUrl) ELSE << >>

\* MayEnqueue without the test on visitedUrls
MayEnqueueUnqueued(link, queue, visited) == ~Includes(queue, link)

\* MayEnqueue without the test on urlQueue
MayEnqueueUnvisited(link, queue, visited) == link \notin visited

\* the test that lets a link into urlQueue
MayEnqueue(link, queue, visited) ==
    link \notin visited /\ ~Includes(queue, link)

\* for (const link of result.links) ...
RECURSIVE EnqueueLinks(_, _, _)
EnqueueLinks(links, queue, visited) ==
    TheOnly({
        IF l = << >> THEN q
        ELSE EnqueueLinks(Tail(l),
                          IF MayEnqueue(Head(l), q, visited)
                          THEN Append(q, Head(l)) ELSE q,
                          visited)
        : l \in {links}, q \in {queue} })

\* ApplyResults that puts each page record in front (unshift for push)
RECURSIVE ApplyResultsInFront(_, _, _, _, _, _)
ApplyResultsInFront(batch, fs, queue, scraped, visited, baseUrl) ==
    TheOnly({
        IF b = << >> THEN [queue |-> q, scraped |-> sc]
        ELSE IF Head(f).res = "null"
             THEN ApplyResultsInFront(Tail(b), Tail(f), q, sc, visited, baseUrl)
             ELSE ApplyResultsInFront(Tail(b), Tail(f),
                      EnqueueLinks(ResultLinks(Head(b), Head(f).res, baseUrl),
                                   q, visited),
                      << Head(b) >> \o sc, visited, baseUrl)
        : b \in {batch}, f \in {fs}, q \in {queue}, sc \in {scraped} })

\* for (const result of results) ...: results are in the order of the batch
RECURSIVE ApplyResults(_, _, _, _, _, _)
ApplyResults(batch, fs, queue, scraped, visited, baseUrl) ==
    TheOnly({
        IF b = << >> THEN [queue |-> q, scraped |-> sc]
        ELSE IF Head(f).res = "null"
             THEN ApplyResults(Tail(b), Tail(f), q, sc, visited, baseUrl)
             ELSE ApplyResults(Tail(b), Tail(f),
                      EnqueueLinks(ResultLinks(Head(b), Head(f).res, baseUrl),
                                   q, visited),
                      Append(sc, Head(b)), visited, baseUrl)
        : b \in {batch}, f \in {fs}, q \in {queue}, sc \in {scraped} })

\* AllFulfilled that is content with one fulfilled call (Promise.any for Promise.all)
SomeFulfilled(fs) == \E i \in 1..Len(fs) : fs[i].st = "fulfilled"

\* Promise.all(...) resolves: every call of the batch is fulfilled
AllFulfilled(fs) == \A i \in 1..Len(fs) : fs[i].st = "fulfilled"

\* the state in which the outer while loop stops
LoopState(at, queue, visited, scraped, batch, fs, opened) ==
    [pc |-> at, queue |-> queue, visited |-> visited, scraped |-> scraped,
     batch |-> batch, fetch |-> fs, opened |-> opened]

\* the outer while loop from its head to the next await (Promise.all of a
\* batch with a page to open) or to its exit
RECURSIVE RunLoop(_, _, _, _, _)
RunLoop(queue, visited, scraped, budget, baseUrl) ==
    TheOnly({
        IF ~(Len(q) > 0 /\ Len(sc) < budget)
        THEN LoopState("closing", q, v, sc, << >>, << >>, << >>)
        ELSE TheOnly({
            IF Len(pb.batch) = 0
            THEN LoopState("closing", pb.queue, v, sc, << >>, << >>, << >>)
            ELSE TheOnly({
                IF AllFulfilled(d.fetch)
                THEN RunLoop(pb.queue, d.visited, sc, budget, baseUrl)
                ELSE LoopState("batch", pb.queue, d.visited, sc, pb.batch,
                               d.fetch, d.opened)
                : d \in { Dispatch(pb.batch, v) } })
            : pb \in { PullBatch(q, << >>, v, Len(sc), budget) } })
        : q \in {queue}, v \in {visited}, sc \in {scraped} })

\* the value scrapeWebsite returns
Aggregate(scraped) == [pagesScraped |-> Len(scraped), urls |-> scraped]

(***************************************************************************)
(* JavaScript values of the servers (src/unnamed/part_003, part_004).      *)
(* A number is an integer or NaN.  A value of the JSON body is a record    *)
(* tagged by its type; a string is known by whether it is empty, by the    *)
(* integer parseInt reads at its start (NaN when there is none) and by the *)
(* URL it spells (BadUrl when `new URL` rejects it).                       *)
(***************************************************************************)
MAX_QUEUE_SIZE == 100          \* const MAX_QUEUE_SIZE = 100
HandlerDefaultMaxPages == 10   \* const { url, maxPages = 10, maxLength } = req.body
MaxPagesCap == 50              \* Math.min(..., 50)
MaxLengthCap == 100000         \* Math.min(maxLengthLimit, 100000)
JobAttempts == 3               \* defaultJobOptions.attempts

NaN == [nan |-> TRUE]
Number(n) == [nan |-> FALSE, v |-> n]
isNaN(x) == x.nan

\* x < n (false when x is NaN)
Less(x, n) == ~x.nan /\ x.v < n

Undefined == [kind |-> "undefined"]
Null == [kind |-> "null"]
Num(n) == [kind |-> "number", v |-> n]
String(empty, int, u) == [kind |-> "string", empty |-> empty, int |-> int, url |-> u]
EmptyStr == String(TRUE, NaN, BadUrl)
Str(int) == String(FALSE, int, BadUrl)
UrlStr(u) == String(FALSE, NaN, u)

\* !j
Falsy(j) ==
    CASE j.kind = "string" -> j.empty
      [] j.kind = "number" -> j.v = 0
      [] OTHER -> TRUE

\* parseInt(j, 10)
parseInt(j) ==
    CASE j.kind = "number" -> Number(j.v)
      [] j.kind = "string" -> j.int
      [] OTHER -> NaN

\* x || d
OrElse(x, d) == IF x.nan \/ x.v = 0 THEN Number(d) ELSE x

\* Math.max(a, x) and Math.min(x, b)
MathMax(a, x) == IF x.nan THEN NaN ELSE Number(IF x.v < a THEN a ELSE x.v)
MathMin(x, b) == IF x.nan THEN NaN ELSE Number(IF x.v > b THEN b ELSE x.v)

\* a destructuring default: `name = d`
DefaultTo(j, d) == IF j = Undefined THEN Num(d) ELSE j

\* new URL(j) succeeds
UrlParses(j) == j.kind = "string" /\ CanParse(j.url)

(***************************************************************************)
(* The aggregated text.  It is known by its length and by where it comes   *)
(* from: the first `take` characters of the text of a crawl (`full`        *)
(* characters long), followed by `dots` full stops.                        *)
(***************************************************************************)
Text(full) == [full |-> full, take |-> full, dots |-> 0]
Length(t) == t.take + t.dots

\* t.substring(0, n)
Substring(t, n) ==
    IF n <= t.take THEN [t EXCEPT !.take = IF n < 0 THEN 0 ELSE n, !.dots = 0]
    ELSE [t EXCEPT !.dots = IF n - t.take < t.dots THEN n - t.take ELSE t.dots]

\* t + "..."
PlusDots(t) == [t EXCEPT !.dots = @ + 3]

\* Math.ceil(n / d) for n >= 0
Ceil(n, d) == (n + d - 1) \div d

\* estimateTokens(text)
estimateTokens(t) == IF Length(t) = 0 THEN 0 ELSE Ceil(Length(t), 4)

(***************************************************************************)
(* handleScrapeRequest: the validation of the body                         *)
(***************************************************************************)
\* pagesToScrape without the clamp
pagesToScrapeUnclamped(value) == parseInt(value)

\* const pagesToScrape = Math.min(Math.max(1, parseInt(maxPages, 10) || 10), 50)
pagesToScrape(value) ==
    MathMin(MathMax(1, OrElse(parseInt(value), 10)), MaxPagesCap)

\* maxLengthLimit once the body passed the validation
maxLengthLimit(maxLength) ==
    IF maxLength = Undefined THEN Null
    ELSE Num(MathMin(parseInt(maxLength), MaxLengthCap).v)

Rejected(message) == [status |-> 400, error |-> message]
Accepted(u, pages, limit) ==
    [status |-> 0, url |-> u, pagesToScrape |-> pages, maxLengthLimit |-> limit]

\* the checks in their order: what the handler answers, or what it goes on with
Validate(body) ==
    LET pages == pagesToScrape(DefaultTo(body.maxPages, HandlerDefaultMaxPages))
        len == parseInt(body.maxLength)
    IN  IF Falsy(body.url) THEN Rejected("URL is required")
        ELSE IF ~UrlParses(body.url) THEN Rejected("Invalid URL format")
        ELSE IF isNaN(pages) \/ Less(pages, 1)
        THEN Rejected("maxPages must be a positive number (max 50)")
        ELSE IF body.maxLength # Undefined /\ (isNaN(len) \/ Less(len, 1))
        THEN Rejected("maxLength must be a positive number")
        ELSE Accepted(body.url.url, pages.v, maxLengthLimit(body.maxLength))

(***************************************************************************)
(* The response of a scrape                                                *)
(***************************************************************************)
\* what scrapeWebsite(u, ...) returns when its text is n characters long
ScrapeResult(u, n) ==
    [text |-> Text(n),
     pagesScraped |-> Aggregate(IF n = 0 THEN << >> ELSE << StripHash(u) >>).pagesScraped,
     urls |-> Aggregate(IF n = 0 THEN << >> ELSE << StripHash(u) >>).urls]

\* Truncated that keeps the whole answer within n characters
TruncatedWithin(t, n) == PlusDots(Substring(t, n - 3))

\* result.text.substring(0, n) + "..."
Truncated(t, n) == PlusDots(Substring(t, n))

\* the test on maxLengthLimit (handler) and on job.data.maxLength (worker)
Truncates(t, limit) == ~Falsy(limit) /\ Length(t) > limit.v

\* the JSON of the response; a field that is undefined is not in it
ResponseBody(text, scraped, tokenEstimate, originalTokenEstimate, originalLength, truncated) ==
    IF truncated
    THEN [text |-> text, pagesScraped |-> scraped.pagesScraped, urls |-> scraped.urls,
          tokenEstimate |-> tokenEstimate,
          originalTokenEstimate |-> originalTokenEstimate,
          characterCount |-> Length(text),
          originalCharacterCount |-> originalLength,
          truncated |-> TRUE]
    ELSE [text |-> text, pagesScraped |-> scraped.pagesScraped, urls |-> scraped.urls,
          tokenEstimate |-> tokenEstimate,
          characterCount |-> Length(text),
          truncated |-> FALSE]

\* handleScrapeRequest of the direct server, after `await scrapeWebsite`
HandlerResponse(scraped, limit) ==
    LET originalLength == Length(scraped.text)
        truncated == Truncates(scraped.text, limit)
        text == IF truncated THEN Truncated(scraped.text, limit.v) ELSE scraped.text
        tokenEstimate == estimateTokens(text)
        originalTokenEstimate ==
            IF truncated THEN estimateTokens(Substring(text, originalLength))
            ELSE tokenEstimate
    IN  ResponseBody(text, scraped, tokenEstimate, originalTokenEstimate,
                     originalLength, truncated)

\* the worker's job processor, after `await scrapeWebsite`
WorkerResponse(scraped, limit) ==
    LET originalLength == Length(scraped.text)
        truncated == Truncates(scraped.text, limit)
        text == IF truncated THEN Truncated(scraped.text, limit.v) ELSE scraped.text
        tokenEstimate == Ceil(Length(text), 4)
        originalTokenEstimate ==
            IF truncated THEN Ceil(originalLength, 4) ELSE tokenEstimate
    IN  ResponseBody(text, scraped, tokenEstimate, originalTokenEstimate,
                     originalLength, truncated)

Response(status, body) == [status |-> status, body |-> body]
NoResponse == Response(0, << >>)
Failed(message) == Response(500, [error |-> message])

(***************************************************************************)
(* removeCookieSections (the Noise Filter).  A text is a sequence of       *)
(* tokens: a word of the vocabulary, a stretch of n characters of prose    *)
(* (no keyword, no white space at its ends, no line break), or one white   *)
(* space character: a space, "\n" or "\r".                                 *)
(***************************************************************************)
MaxCookieSectionLength == 1200   \* section.length <= 1200
MaxTokens == 4                   \* longest text tried, in tokens

Word(w, n) == [kind |-> "word", w |-> w, n |-> n]
Prose(n) == [kind |-> "prose", w |-> "", n |-> n]
SP == [kind |-> "ws", w |-> " ", n |-> 1]
NL == [kind |-> "ws", w |-> "\n", n |-> 1]
CR == [kind |-> "ws", w |-> "\r", n |-> 1]

IsWs(tok) == tok.kind = "ws"

\* text.length
RECURSIVE Chars(_)
Chars(t) == IF t = << >> THEN 0 ELSE Head(t).n + Chars(Tail(t))

\* the /i flag: the words of the vocabulary that are spelt with capitals
Lower(w) ==
    CASE w = "Accept" -> "accept"
      [] w = "All" -> "all"
      [] w = "Cookies" -> "cookies"
      [] OTHER -> w

\* COOKIE_PATTERNS, each pattern as its words (a single space between them)
COOKIE_PATTERNS ==
    << << "cookie" >>, << "cookies" >>, << "gdpr" >>, << "privacy", "policy" >>,
       << "privacy", "settings" >>, << "consent" >>, << "accept", "all" >>,
       << "reject", "all" >>, << "manage", "preferences" >>,
       << "personalized", "ads" >>, << "we", "value", "your", "privacy" >>,
       << "tracking", "technologies" >> >>

\* `part` occurs inside the word
HasPart(w, part) == Lower(w) = part \/ (Lower(w) = "cookies" /\ part = "cookie")

\* the pattern matches the text from token i on
MatchAt(pattern, t, i) ==
    /\ i + 2 * (Len(pattern) - 1) <= Len(t)
    /\ \A k \in 1..Len(pattern) :
          /\ t[i + 2 * (k - 1)].kind = "word"
          /\ IF Len(pattern) = 1 THEN HasPart(t[i].w, pattern[1])
             ELSE Lower(t[i + 2 * (k - 1)].w) = pattern[k]
          /\ k > 1 => t[i + 2 * (k - 1) - 1] = SP

\* pattern.test(text)
Test(pattern, t) == \E i \in 1..Len(t) : MatchAt(pattern, t, i)

\* isCookieText(text)
isCookieText(t) ==
    t # << >> /\ \E k \in 1..Len(COOKIE_PATTERNS) : Test(COOKIE_PATTERNS[k], t)

\* section.match(pattern) of a pattern without the g flag: null, or an array
\* that holds the first match and nothing else
MatchesLength(pattern, t) == IF Test(pattern, t) THEN 1 ELSE 0

\* COOKIE_PATTERNS.reduce(...) over the first k patterns
RECURSIVE KeywordMatchesUpTo(_, _)
KeywordMatchesUpTo(k, t) ==
    IF k = 0 THEN 0
    ELSE KeywordMatchesUpTo(k - 1, t) + MatchesLength(COOKIE_PATTERNS[k], t)

keywordMatches(t) == KeywordMatchesUpTo(Len(COOKIE_PATTERNS), t)

\* text.replace(/\r\n/g, "\n")
RECURSIVE ReplaceCrLf(_)
ReplaceCrLf(t) ==
    IF Len(t) < 2 THEN t
    ELSE IF t[1] = CR /\ t[2] = NL THEN << NL >> \o ReplaceCrLf(Tail(Tail(t)))
    ELSE << Head(t) >> \o ReplaceCrLf(Tail(t))

\* the tokens of t after its leading run of the white space character c
RECURSIVE SkipRun(_, _)
SkipRun(t, c) == IF t # << >> /\ Head(t) = c THEN SkipRun(Tail(t), c) ELSE t

\* t.split(/\n{2,}|\r{2,}/); cur is the piece being read
RECURSIVE SplitFrom(_, _)
SplitFrom(t, cur) ==
    IF t = << >> THEN << cur >>
    ELSE IF Len(t) >= 2 /\ Head(t) \in {NL, CR} /\ t[2] = Head(t)
    THEN << cur >> \o SplitFrom(SkipRun(t, Head(t)), << >>)
    ELSE SplitFrom(Tail(t), Append(cur, Head(t)))

Split(t) == SplitFrom(t, << >>)

\* s.trim()
RECURSIVE TrimStart(_)
TrimStart(s) == IF s # << >> /\ IsWs(Head(s)) THEN TrimStart(Tail(s)) ELSE s
RECURSIVE TrimEnd(_)
TrimEnd(s) ==
    IF s # << >> /\ IsWs(s[Len(s)]) THEN TrimEnd(SubSeq(s, 1, Len(s) - 1)) ELSE s
Trim(s) == TrimEnd(TrimStart(s))

\* s.replace(/\s+/g, " ")
RECURSIVE CollapseSpace(_)
CollapseSpace(s) ==
    IF s = << >> THEN << >>
    ELSE IF IsWs(Head(s)) THEN << SP >> \o CollapseSpace(TrimStart(s))
    ELSE << Head(s) >> \o CollapseSpace(Tail(s))

\* the sections of the text: split, each trimmed, the empty ones dropped
Sections(t) ==
    SelectSeq([k \in 1..Len(Split(ReplaceCrLf(t))) |-> Trim(Split(ReplaceCrLf(t))[k])],
              LAMBDA s : s # << >>)

\* the filter callback: true for a section that stays
KeepsSection(s) ==
    /\ s # << >>
    /\ ~(isCookieText(s) /\ Chars(s) <= MaxCookieSectionLength)
    /\ ~(keywordMatches(s) >= 2)

\* sections.join("\n\n")
RECURSIVE Join(_)
Join(sections) ==
    IF sections = << >> THEN << >>
    ELSE IF Len(sections) = 1 THEN sections[1]
    ELSE sections[1] \o << NL, NL >> \o Join(Tail(sections))

removeCookieSections(t) ==
    IF t = << >> THEN << >>
    ELSE Trim(Join(SelectSeq(
             [k \in 1..Len(SelectSeq(Sections(t), KeepsSection)) |->
                 Trim(CollapseSpace(SelectSeq(Sections(t), KeepsSection)[k]))],
             LAMBDA s : s # << >>)))

\* processUrl with the page text handed to the filter as the browser gives it
PageContentRaw(innerText) == innerText

\* processUrl, metadata.content: the text of the body with every run of white
\* space replaced by one space, trimmed
PageContent(innerText) == Trim(CollapseSpace(innerText))

\* processUrl, pageData.content: cleanedContent
cleanedContent(innerText) == removeCookieSections(PageContent(innerText))

\* scrapeWebsite, aggregatedText: the contents of the page records that are
\* not empty, joined by a blank line, trimmed
aggregatedText(contents) == Trim(Join(SelectSeq(contents, LAMBDA c : c # << >>)))

(***************************************************************************)
(* Initial states                                                          *)
(***************************************************************************)
Seeds == { P(0), WithFrag(P(0)), P(4), P(5), X(0), BadUrl }
Budgets == (-1 .. MaxMaxPages) \cup { DefaultMaxPages }

\* the limiter as its constructor leaves it
InitLimiter(capacity) ==
    /\ maxConcurrent = capacity
    /\ activeLaunches = 0
    /\ waitQueue = << >>

\* scrapeWebsite is about to be called by the sessions of `active`, with
\* arguments drawn from `seeds` and `budgets` (functions on `active`)
InitSessions(active, first, seeds, budgets) ==
    /\ pc = [s \in Sessions |-> IF s \in active THEN first ELSE "absent"]
    /\ \E seed \in seeds :
           url = [s \in Sessions |-> IF s \in active THEN seed[s] ELSE BadUrl]
    /\ \E budget \in budgets :
           maxPages = [s \in Sessions |-> IF s \in active THEN budget[s] ELSE 0]
    /\ urlQueue = [s \in Sessions |-> << >>]
    /\ visitedUrls = [s \in Sessions |-> {}]
    /\ scrapedData = [s \in Sessions |-> << >>]
    /\ urlsToProcess = [s \in Sessions |-> << >>]
    /\ fetch = [s \in Sessions |-> << >>]
    /\ browser = [s \in Sessions |-> "none"]
    /\ fault = [s \in Sessions |-> FALSE]
    /\ result = [s \in Sessions |-> NoResult]
    /\ error = [s \in Sessions |-> "none"]
    /\ grants = [s \in Sessions |-> 0]
    /\ releases = [s \in Sessions |-> 0]
    /\ dispatched = [s \in Sessions |-> << >>]
    /\ settled = [s \in Sessions |-> << >>]

(***************************************************************************)
(* Initial states of the servers                                           *)
(***************************************************************************)
Body(u, pages, len) == [url |-> u, maxPages |-> pages, maxLength |-> len]

\* a request that has not arrived yet
NewRequest ==
    [st |-> "new", body |-> Body(Undefined, Undefined, Undefined),
     response |-> NoResponse, crawls |-> << >>]

NoJob == [st |-> "none", data |-> Body(Undefined, Undefined, Undefined),
          attemptsMade |-> 0, returnvalue |-> << >>]

\* a server of one of `kinds` has started and n requests are on their way
InitServer(kinds, limits, n) ==
    /\ server \in kinds
    /\ MAX_CONCURRENT_REQUESTS \in limits
    /\ activeRequests = 0
    /\ requestQueue = << >>
    /\ req = [r \in 1..n |-> NewRequest]
    /\ jobs = << >>
    /\ job = [r \in (IF server = "queue" THEN 1..n ELSE {}) |-> NoJob]
    /\ worker = 0

\* no server: scrapeWebsite is called directly
InitNoServer == InitServer({"none"}, {0}, 0)

\* removeCookieSections is not called on its own
InitNoFilter ==
    /\ rawText = << >>
    /\ cleanedText = << >>

\* one crawl of any seed with any page budget
Init ==
    /\ InitLimiter(LimiterCapacity)
    /\ InitSessions({1}, "start", [{1} -> Seeds], [{1} -> Budgets])
    /\ InitNoServer
    /\ InitNoFilter

\* one session more than the limiter has permits: one crawls a page without
\* links, the others have a page budget of 0 (browser launched and closed)
InitContend ==
    /\ InitLimiter(LimiterCapacity)
    /\ InitSessions(Sessions, "start", { [s \in Sessions |-> P(4)] },
                    { [s \in Sessions |-> IF s = 1 THEN 2 ELSE 0] })
    /\ InitNoServer
    /\ InitNoFilter

\* two sessions at once on the same site, their crawls overlapping; the
\* first fetches two pages at a time, the second one
IsoSessions == {1, 2}
InitIso ==
    /\ InitLimiter(LimiterCapacity)
    /\ InitSessions(IsoSessions, "start", [IsoSessions -> {P(0), P(1)}],
                    { [s \in IsoSessions |-> IF s = 1 THEN 3 ELSE 2] })
    /\ InitNoServer
    /\ InitNoFilter

\* a limiter constructed on its own, with callers that acquire and release
InitCallers ==
    /\ \E capacity \in 1..MaxCapacity : InitLimiter(capacity)
    /\ InitSessions(Callers, "idle", { [c \in Callers |-> BadUrl] },
                    { [c \in Callers |-> 0] })
    /\ InitNoServer
    /\ InitNoFilter

(***************************************************************************)
(* BrowserLaunchLimiter.acquire() and release() as steps of a caller       *)
(***************************************************************************)
acquire(s, granted, suspended) ==
    IF AcquireGrants(activeLaunches, maxConcurrent)
    THEN /\ activeLaunches' = activeLaunches + 1
         /\ waitQueue' = waitQueue
         /\ grants' = [grants EXCEPT ![s] = @ + 1]
         /\ pc' = [pc EXCEPT ![s] = granted]
    ELSE /\ waitQueue' = Append(waitQueue, s)
         /\ pc' = [pc EXCEPT ![s] = suspended]
         /\ UNCHANGED << activeLaunches, grants >>

release(s, after) ==
    /\ activeLaunches' = ReleaseActive(activeLaunches, waitQueue)
    /\ waitQueue' = ReleaseQueue(waitQueue)
    /\ grants' = ReleaseGrants(grants, waitQueue)
    /\ releases' = [releases EXCEPT ![s] = @ + 1]
    /\ pc' = [ReleasePc(pc, waitQueue) EXCEPT ![s] = after]

(***************************************************************************)
(* scrapeWebsite                                                           *)
(***************************************************************************)
\* a visited set shared by all calls (declared at module level)
VisitedOfAll(s) == UNION { visitedUrls[t] : t \in Sessions }

\* visitedUrls is a local of the call: each session has its own
VisitedOf(s) == visitedUrls[s]

\* the state of session s after the outer loop ran to its next await
EnterLoop(s, rl) ==
    /\ urlQueue' = [urlQueue EXCEPT ![s] = rl.queue]
    /\ visitedUrls' = [visitedUrls EXCEPT ![s] = rl.visited]
    /\ scrapedData' = [scrapedData EXCEPT ![s] = rl.scraped]
    /\ urlsToProcess' = [urlsToProcess EXCEPT ![s] = rl.batch]
    /\ fetch' = [fetch EXCEPT ![s] = rl.fetch]
    /\ dispatched' = [dispatched EXCEPT ![s] = @ \o rl.opened]

\* the call up to `await browserLaunchLimiter.acquire()`
Start(s) ==
    /\ pc[s] = "start"
    /\ IF CanParse(url[s])
       THEN /\ acquire(s, "acquired", "waiting")
            /\ urlQueue' = [urlQueue EXCEPT ![s] = << url[s] >>]
            /\ UNCHANGED error
       ELSE /\ pc' = [pc EXCEPT ![s] = "failed"]
            /\ error' = [error EXCEPT ![s] = "url"]
            /\ UNCHANGED << activeLaunches, waitQueue, grants, urlQueue >>
    /\ UNCHANGED << maxConcurrent, url, maxPages, visitedUrls, scrapedData,
                    urlsToProcess, fetch, browser, fault, result,
                    releases, dispatched, settled, outerVars >>

\* chromium.launch() resolves; the loop runs up to its first Promise.all
LaunchOk(s) ==
    /\ pc[s] = "acquired"
    /\ browser' = [browser EXCEPT ![s] = "open"]
    /\ \E rl \in { RunLoop(urlQueue[s], VisitedOf(s), scrapedData[s],
                            maxPages[s], url[s]) } :
          /\ EnterLoop(s, rl)
          /\ pc' = [pc EXCEPT ![s] = rl.pc]
    /\ UNCHANGED << limiterVars, url, maxPages, fault, result, error,
                    grants, releases, settled, outerVars >>

\* LaunchFail that rethrows without releasing the permit
LaunchFailKeepsPermit(s) ==
    /\ pc[s] = "acquired"
    /\ pc' = [pc EXCEPT ![s] = "failed"]
    /\ error' = [error EXCEPT ![s] = "launch"]
    /\ UNCHANGED << limiterVars, url, maxPages, urlQueue, visitedUrls,
                    scrapedData, urlsToProcess, fetch, browser, fault, result,
                    historyVars, outerVars >>

\* chromium.launch() rejects: release the permit and rethrow
LaunchFail(s) ==
    /\ pc[s] = "acquired"
    /\ release(s, "failed")
    /\ error' = [error EXCEPT ![s] = "launch"]
    /\ UNCHANGED << maxConcurrent, url, maxPages, urlQueue, visitedUrls,
                    scrapedData, urlsToProcess, fetch, browser, fault, result,
                    dispatched, settled, outerVars >>

(***************************************************************************)
(* processUrl, one call per batch entry i of session s                     *)
(***************************************************************************)
InFlight(s, i, st) == i \in 1..Len(fetch[s]) /\ fetch[s][i].st = st

\* a processUrl call of the batch moved on without settling
FetchStep(s, fs) ==
    /\ fetch' = [fetch EXCEPT ![s] = fs]
    /\ UNCHANGED << limiterVars, pc, url, maxPages, urlQueue, visitedUrls,
                    scrapedData, urlsToProcess, browser, fault, result, error,
                    historyVars, outerVars >>

\* the processUrl call of entry i settled, its page being `page` ("none":
\* never opened, "closed", or "open"); Promise.all rejects with the first
\* rejection and resolves when every call is fulfilled, and scrapeWebsite
\* runs on from there to its next await
Settle(s, i, fs, page) ==
    /\ settled' = [settled EXCEPT ![s] =
           Append(@, [url |-> urlsToProcess[s][i],
                      res |-> IF fs[i].st = "rejected" THEN "rejected" ELSE fs[i].res,
                      page |-> page])]
    /\ IF pc[s] = "batch" /\ fs[i].st = "rejected"
       THEN /\ pc' = [pc EXCEPT ![s] = "closing"]
            /\ fault' = [fault EXCEPT ![s] = TRUE]
            /\ fetch' = [fetch EXCEPT ![s] = fs]
            /\ UNCHANGED << urlQueue, visitedUrls, scrapedData, urlsToProcess,
                            dispatched >>
       ELSE IF pc[s] = "batch" /\ AllFulfilled(fs)
       THEN \E ar \in { ApplyResults(urlsToProcess[s], fs, urlQueue[s],
                                      scrapedData[s], VisitedOf(s), url[s]) } :
            \E rl \in { RunLoop(ar.queue, VisitedOf(s), ar.scraped,
                                 maxPages[s], url[s]) } :
               /\ EnterLoop(s, rl)
               /\ pc' = [pc EXCEPT ![s] = rl.pc]
               /\ UNCHANGED fault
       ELSE /\ fetch' = [fetch EXCEPT ![s] = fs]
            /\ UNCHANGED << pc, fault, urlQueue, visitedUrls, scrapedData,
                            urlsToProcess, dispatched >>
    /\ UNCHANGED << limiterVars, url, maxPages, browser, result, error,
                    grants, releases, outerVars >>

\* browser.newPage() resolves
NewPageOk(s, i) ==
    /\ InFlight(s, i, "newPage")
    /\ browser[s] = "open"
    /\ FetchStep(s, [fetch[s] EXCEPT ![i].st = "page"])

\* browser.newPage() rejects: it stands before the try, processUrl rejects
NewPageFail(s, i) ==
    /\ InFlight(s, i, "newPage")
    /\ Settle(s, i, [fetch[s] EXCEPT ![i].st = "rejected"], "none")

\* FetchOk that counts the calls of the batch that have completed as pages
\* collected (scrapedData filled by processUrl as each call completes)
FetchOkSeesBatch(s, i) ==
    /\ InFlight(s, i, "page")
    /\ browser[s] = "open"
    /\ FetchStep(s, [fetch[s] EXCEPT ![i] =
           [st |-> "closing",
            res |-> IF WantsLinks(Len(scrapedData[s])
                          + Cardinality({ j \in 1..Len(fetch[s]) :
                                            fetch[s][j].st = "fulfilled" }),
                          maxPages[s])
                    THEN "links" ELSE "nolinks"]])

\* navigation and extraction succeed; the links are extracted if wanted
FetchOk(s, i) ==
    /\ InFlight(s, i, "page")
    /\ browser[s] = "open"
    /\ FetchStep(s, [fetch[s] EXCEPT ![i] =
           [st |-> "closing",
            res |-> IF WantsLinks(Len(scrapedData[s]), maxPages[s])
                    THEN "links" ELSE "nolinks"]])

\* navigation and extraction succeed, but page.evaluate inside
\* extractSameDomainLinks throws: the links are []
ExtractLinksFail(s, i) ==
    /\ InFlight(s, i, "page")
    /\ browser[s] = "open"
    /\ WantsLinks(Len(scrapedData[s]), maxPages[s])
    /\ FetchStep(s, [fetch[s] EXCEPT ![i] = [st |-> "closing", res |-> "linkerr"]])

\* FetchFail without the finally block: processUrl returns null at once and
\* page.close() is not called
FetchFailSkipsClose(s, i) ==
    /\ InFlight(s, i, "page")
    /\ Settle(s, i, [fetch[s] EXCEPT ![i] = [st |-> "fulfilled", res |-> "null"]],
              "open")

\* an error inside the try (navigation timeout, extraction exception):
\* caught, processUrl will return null
FetchFail(s, i) ==
    /\ InFlight(s, i, "page")
    /\ FetchStep(s, [fetch[s] EXCEPT ![i] = [st |-> "closing", res |-> "null"]])

\* finally: page.close() resolves, processUrl fulfils
PageCloseOk(s, i) ==
    /\ InFlight(s, i, "closing")
    /\ Settle(s, i, [fetch[s] EXCEPT ![i].st = "fulfilled"], "closed")

\* finally: page.close() rejects, processUrl rejects; the page may or may
\* not be gone
PageCloseFail(s, i) ==
    /\ InFlight(s, i, "closing")
    /\ \E page \in {"open", "closed"} :
          Settle(s, i, [fetch[s] EXCEPT ![i].st = "rejected"], page)

(***************************************************************************)
(* scrapeWebsite: the finally block and the return                         *)
(***************************************************************************)
\* Finish with the release after the try block instead of in its finally:
\* a fault of the Running phase leaves before the permit is released
FinishLeaksOnFault(s) ==
    /\ IF fault[s]
       THEN /\ pc' = [pc EXCEPT ![s] = "failed"]
            /\ error' = [error EXCEPT ![s] = "page"]
            /\ UNCHANGED << result, activeLaunches, waitQueue, grants, releases >>
       ELSE /\ release(s, "done")
            /\ result' = [result EXCEPT ![s] = Aggregate(scrapedData[s])]
            /\ UNCHANGED error
    /\ UNCHANGED << maxConcurrent, url, maxPages, urlQueue, visitedUrls,
                    scrapedData, urlsToProcess, fetch, fault,
                    dispatched, settled, outerVars >>

\* after `await browser.close()` settled: release, then return or rethrow
Finish(s) ==
    /\ IF fault[s]
       THEN /\ release(s, "failed")
            /\ error' = [error EXCEPT ![s] = "page"]
            /\ UNCHANGED result
       ELSE /\ release(s, "done")
            /\ result' = [result EXCEPT ![s] = Aggregate(scrapedData[s])]
            /\ UNCHANGED error
    /\ UNCHANGED << maxConcurrent, url, maxPages, urlQueue, visitedUrls,
                    scrapedData, urlsToProcess, fetch, fault,
                    dispatched, settled, outerVars >>

\* browser.close() resolves
BrowserCloseOk(s) ==
    /\ pc[s] = "closing"
    /\ browser' = [browser EXCEPT ![s] = "closed"]
    /\ Finish(s)

\* browser.close() rejects; the error is swallowed and the browser may or
\* may not be gone
BrowserCloseFail(s) ==
    /\ pc[s] = "closing"
    /\ \E b \in {"open", "closed"} : browser' = [browser EXCEPT ![s] = b]
    /\ Finish(s)

BatchIndex == 1..maxConcurrency

Next ==
    \E s \in Sessions :
        \/ Start(s)
        \/ LaunchOk(s)
        \/ LaunchFail(s)
        \/ BrowserCloseOk(s)
        \/ BrowserCloseFail(s)
        \/ \E i \in BatchIndex :
            \/ NewPageOk(s, i)
            \/ NewPageFail(s, i)
            \/ FetchOk(s, i)
            \/ ExtractLinksFail(s, i)
            \/ FetchFail(s, i)
            \/ PageCloseOk(s, i)
            \/ PageCloseFail(s, i)

Spec == Init /\ [][Next]_vars

SpecContend == InitContend /\ [][Next]_vars

SpecIso == InitIso /\ [][Next]_vars

(***************************************************************************)
(* Two runs of the same crawl: two sessions with the same seed and the     *)
(* same page budget, each with its own interleaving of completions         *)
(***************************************************************************)
TwinBudget == 3

InitTwin ==
    /\ InitLimiter(LimiterCapacity)
    /\ InitSessions(IsoSessions, "start", { [s \in IsoSessions |-> P(0)] },
                    { [s \in IsoSessions |-> TwinBudget] })
    /\ InitNoServer
    /\ InitNoFilter

SpecTwin == InitTwin /\ [][Next]_vars

\* every pending await of a session settles: the launch, the page
\* operations (each completes or times out) and browser.close()
MainLine(s) ==
    Start(s) \/ LaunchOk(s) \/ LaunchFail(s) \/ BrowserCloseOk(s) \/ BrowserCloseFail(s)
PageWork(s) ==
    \E i \in BatchIndex :
        \/ NewPageOk(s, i) \/ NewPageFail(s, i) \/ FetchOk(s, i)
        \/ ExtractLinksFail(s, i) \/ FetchFail(s, i)
        \/ PageCloseOk(s, i) \/ PageCloseFail(s, i)
Fairness == \A s \in Sessions : WF_vars(MainLine(s)) /\ WF_vars(PageWork(s))

FairSpec == Spec /\ Fairness

(***************************************************************************)
(* A limiter on its own: callers that acquire a permit and release it      *)
(***************************************************************************)
CallerAcquire(c) ==
    /\ pc[c] = "idle"
    /\ grants[c] < MaxAcquires
    /\ acquire(c, "acquired", "waiting")
    /\ UNCHANGED << maxConcurrent, sessionVars, releases, dispatched, settled,
                    outerVars >>

CallerRelease(c) ==
    /\ pc[c] = "acquired"
    /\ release(c, "idle")
    /\ UNCHANGED << maxConcurrent, sessionVars, dispatched, settled, outerVars >>

NextCallers == \E c \in Callers : CallerAcquire(c) \/ CallerRelease(c)

SpecLimiter == InitCallers /\ [][NextCallers]_vars

(***************************************************************************)
(* The direct server (src/unnamed/part_003): POST /scrape, processQueue    *)
(* and handleScrapeRequest.  scrapeWebsite is the awaited call; the crawl  *)
(* itself is the state machine above.                                      *)
(***************************************************************************)
\* AdmitsAtOnce off by one (<= for <)
AdmitsAtOnceOffByOne(active, limit) == active <= limit

\* if (activeRequests < MAX_CONCURRENT_REQUESTS)
AdmitsAtOnce(active, limit) == active < limit

\* else if (requestQueue.length < MAX_QUEUE_SIZE)
QueueHasRoom(queue) == Len(queue) < MAX_QUEUE_SIZE

\* handleScrapeRequest up to its first await: it answers 400, or it calls
\* scrapeWebsite(url, pagesToScrape)
BeginHandler(rq) ==
    TheOnly({
        IF v.status = 400
        THEN [rq EXCEPT !.st = "responded",
                        !.response = Response(400, [error |-> v.error])]
        ELSE [rq EXCEPT !.st = "scraping",
                        !.crawls = Append(@, [url |-> v.url,
                                              maxPages |-> v.pagesToScrape])]
        : v \in { Validate(rq.body) } })

\* processQueue that starts the request that came last (pop for shift)
RECURSIVE processQueueNewest(_, _, _)
processQueueNewest(active, queue, rs) ==
    TheOnly({
        IF a >= MAX_CONCURRENT_REQUESTS \/ Len(q) = 0
        THEN [active |-> a, queue |-> q, req |-> x]
        ELSE TheOnly({
            IF started.st = "responded"
            THEN processQueueNewest((a + 1) - 1, SubSeq(q, 1, Len(q) - 1),
                                    [x EXCEPT ![q[Len(q)]] = started])
            ELSE [active |-> a + 1, queue |-> SubSeq(q, 1, Len(q) - 1),
                  req |-> [x EXCEPT ![q[Len(q)]] = started]]
            : started \in { BeginHandler(x[q[Len(q)]]) } })
        : a \in {active}, q \in {queue}, x \in {rs} })

\* processQueue(); a handler it starts that answers at once runs its
\* finally (activeRequests--, processQueue()) before anything else happens
RECURSIVE processQueue(_, _, _)
processQueue(active, queue, rs) ==
    TheOnly({
        IF a >= MAX_CONCURRENT_REQUESTS \/ Len(q) = 0
        THEN [active |-> a, queue |-> q, req |-> x]
        ELSE TheOnly({
            IF started.st = "responded"
            THEN processQueue((a + 1) - 1, Tail(q), [x EXCEPT ![Head(q)] = started])
            ELSE [active |-> a + 1, queue |-> Tail(q),
                  req |-> [x EXCEPT ![Head(q)] = started]]
            : started \in { BeginHandler(x[Head(q)]) } })
        : a \in {active}, q \in {queue}, x \in {rs} })

\* .finally(() => { activeRequests--; processQueue(); }) of a handler that
\* ran with `active` requests counted and left the requests as rs
Finally(active, rs) ==
    \E pq \in { processQueue(active - 1, requestQueue, rs) } :
        /\ activeRequests' = pq.active
        /\ requestQueue' = pq.queue
        /\ req' = pq.req

\* requests arrive in the order of their numbers
Arrives(r) ==
    /\ req[r].st = "new"
    /\ \A q \in 1..(r - 1) : req[q].st # "new"

Answered(rq, response) == [rq EXCEPT !.st = "responded", !.response = response]

\* app.post("/scrape", ...) of the direct server
Post(r, body) ==
    /\ server = "direct"
    /\ Arrives(r)
    /\ \E rq \in { [req[r] EXCEPT !.body = body] } :
        IF AdmitsAtOnce(activeRequests, MAX_CONCURRENT_REQUESTS)
        THEN \E started \in { BeginHandler(rq) } :
                IF started.st = "responded"
                THEN Finally(activeRequests + 1, [req EXCEPT ![r] = started])
                ELSE /\ activeRequests' = activeRequests + 1
                     /\ req' = [req EXCEPT ![r] = started]
                     /\ UNCHANGED requestQueue
        ELSE IF QueueHasRoom(requestQueue)
        THEN /\ requestQueue' = Append(requestQueue, r)
             /\ req' = [req EXCEPT ![r] = [rq EXCEPT !.st = "queued"]]
             /\ UNCHANGED activeRequests
        ELSE /\ req' = [req EXCEPT ![r] = Answered(rq,
                           Response(503, [error |-> "Service temporarily unavailable"]))]
             /\ UNCHANGED << activeRequests, requestQueue >>
    /\ UNCHANGED << server, MAX_CONCURRENT_REQUESTS, jobs, job, worker,
                    crawlVars, filterVars >>

\* scrapeWebsite resolves with a text of n characters: the handler answers
ScrapeReturns(r, n) ==
    /\ server = "direct"
    /\ req[r].st = "scraping"
    /\ \E v \in { Validate(req[r].body) } :
          Finally(activeRequests,
                  [req EXCEPT ![r] = Answered(@,
                      Response(200, HandlerResponse(ScrapeResult(v.url, n),
                                                    v.maxLengthLimit)))])
    /\ UNCHANGED << server, MAX_CONCURRENT_REQUESTS, jobs, job, worker,
                    crawlVars, filterVars >>

\* scrapeWebsite rejects: the handler's catch answers 500
ScrapeThrows(r) ==
    /\ server = "direct"
    /\ req[r].st = "scraping"
    /\ Finally(activeRequests,
               [req EXCEPT ![r] = Answered(@, Failed("Failed to scrape website"))])
    /\ UNCHANGED << server, MAX_CONCURRENT_REQUESTS, jobs, job, worker,
                    crawlVars, filterVars >>

(***************************************************************************)
(* The queue server (src/unnamed/part_004) and its worker                  *)
(* (src/unnamed/part_003, the first file)                                  *)
(***************************************************************************)
\* app.post("/scrape", ...) of the queue server: activeRequests++, the
\* validation and `await scrapeQueue.add(...)`, which resolves or rejects
PostToQueue(r, body, added) ==
    /\ server = "queue"
    /\ Arrives(r)
    /\ \E v \in { Validate(body) } :
       \E rq \in { [req[r] EXCEPT !.body = body] } :
        IF v.status = 400
        THEN /\ req' = [req EXCEPT ![r] =
                           Answered(rq, Response(400, [error |-> v.error]))]
             /\ activeRequests' = (activeRequests + 1) - 1
             /\ UNCHANGED << jobs, job >>
        ELSE IF added
        THEN /\ job' = [job EXCEPT ![r] =
                           [@ EXCEPT !.st = "waiting",
                                     !.data = Body(body.url, Num(v.pagesToScrape),
                                                   v.maxLengthLimit)]]
             /\ jobs' = Append(jobs, r)
             /\ req' = [req EXCEPT ![r] = [rq EXCEPT !.st = "waiting"]]
             /\ activeRequests' = activeRequests + 1
        ELSE /\ req' = [req EXCEPT ![r] = Answered(rq, Failed("Failed to scrape website"))]
             /\ activeRequests' = (activeRequests + 1) - 1
             /\ UNCHANGED << jobs, job >>
    /\ UNCHANGED << server, MAX_CONCURRENT_REQUESTS, requestQueue, worker,
                    crawlVars, filterVars >>

\* the maxPages the worker hands to scrapeWebsite
WorkerMaxPages(data) == DefaultTo(data.maxPages, HandlerDefaultMaxPages).v

\* the worker (concurrency 1) takes the oldest waiting job and calls
\* scrapeWebsite(url, maxPages)
WorkerTakes(j) ==
    /\ server = "queue"
    /\ worker = 0
    /\ Len(jobs) > 0
    /\ j = Head(jobs)
    /\ worker' = j
    /\ jobs' = Tail(jobs)
    /\ job' = [job EXCEPT ![j].st = "active"]
    /\ req' = [req EXCEPT ![j].crawls =
                   Append(@, [url |-> job[j].data.url.url,
                              maxPages |-> WorkerMaxPages(job[j].data)])]
    /\ UNCHANGED << server, MAX_CONCURRENT_REQUESTS, activeRequests, requestQueue,
                    crawlVars, filterVars >>

\* scrapeWebsite resolves with a text of n characters: the job completes
WorkerReturns(j, n) ==
    /\ server = "queue"
    /\ worker = j
    /\ j # 0
    /\ job' = [job EXCEPT ![j] =
                  [@ EXCEPT !.st = "completed",
                            !.returnvalue =
                                WorkerResponse(ScrapeResult(job[j].data.url.url, n),
                                               job[j].data.maxLength)]]
    /\ worker' = 0
    /\ UNCHANGED << server, MAX_CONCURRENT_REQUESTS, activeRequests, requestQueue,
                    req, jobs, crawlVars, filterVars >>

\* scrapeWebsite rejects and the worker rethrows: the job is retried until
\* it has been attempted JobAttempts times
WorkerThrows(j) ==
    /\ server = "queue"
    /\ worker = j
    /\ j # 0
    /\ IF job[j].attemptsMade + 1 < JobAttempts
       THEN /\ job' = [job EXCEPT ![j] = [@ EXCEPT !.st = "waiting",
                                                   !.attemptsMade = @ + 1]]
            /\ jobs' = Append(jobs, j)
       ELSE /\ job' = [job EXCEPT ![j] = [@ EXCEPT !.st = "failed",
                                                   !.attemptsMade = @ + 1]]
            /\ UNCHANGED jobs
    /\ worker' = 0
    /\ UNCHANGED << server, MAX_CONCURRENT_REQUESTS, activeRequests, requestQueue,
                    req, crawlVars, filterVars >>

\* job.waitUntilFinished settles: res.json(result), or the catch answers 500
JobFinished(r) ==
    /\ server = "queue"
    /\ req[r].st = "waiting"
    /\ job[r].st \in {"completed", "failed"}
    /\ req' = [req EXCEPT ![r] =
                  Answered(@, IF job[r].st = "completed"
                              THEN Response(200, job[r].returnvalue)
                              ELSE Failed("Failed to scrape website"))]
    /\ activeRequests' = activeRequests - 1
    /\ UNCHANGED << server, MAX_CONCURRENT_REQUESTS, requestQueue, jobs, job,
                    worker, crawlVars, filterVars >>

\* the five minutes of the Promise.race pass first: the catch answers 500
JobTimeout(r) ==
    /\ server = "queue"
    /\ req[r].st = "waiting"
    /\ job[r].st \notin {"completed", "failed"}
    /\ req' = [req EXCEPT ![r] = Answered(@, Failed("Failed to scrape website"))]
    /\ activeRequests' = activeRequests - 1
    /\ UNCHANGED << server, MAX_CONCURRENT_REQUESTS, requestQueue, jobs, job,
                    worker, crawlVars, filterVars >>

(***************************************************************************)
(* The requests tried                                                      *)
(***************************************************************************)
NumRequests == 2      \* requests sent to a server

GoodUrl == UrlStr(P(4))
UrlValues == { Undefined, EmptyStr, UrlStr(BadUrl), Num(5), GoodUrl }
MaxPagesValues ==
    { Undefined, Null, Str(NaN), Str(Number(7)), Num(0), Num(-1), Num(2),
      Num(MaxPagesCap + 1) }
MaxLengthValues ==
    { Undefined, Null, Str(NaN), Str(Number(4)), Num(0), Num(-1), Num(4),
      Num(MaxLengthCap + 1) }

\* one field varied at a time, and a few bodies with several fields off
Bodies ==
    { Body(u, Undefined, Undefined) : u \in UrlValues }
    \cup { Body(GoodUrl, p, Undefined) : p \in MaxPagesValues }
    \cup { Body(GoodUrl, Undefined, l) : l \in MaxLengthValues }
    \cup { Body(UrlStr(BadUrl), Num(0), Num(0)),
           Body(GoodUrl, Str(NaN), Num(4)),
           Body(GoodUrl, Num(MaxPagesCap + 1), Num(MaxLengthCap + 1)) }

\* the first request is of any kind; a later one asks for a short text or
\* leaves the url out
LaterBodies == { Body(GoodUrl, Undefined, Num(4)), Body(EmptyStr, Undefined, Undefined) }
BodiesOf(r) == IF r = 1 THEN Bodies ELSE LaterBodies

\* the lengths of the text a crawl returns
TextLengths == { 0, 4, 5, 9, MaxLengthCap + 9 }

\* either server, with requests of every kind; the direct server handles
\* one request at a time
InitHttp ==
    /\ InitLimiter(LimiterCapacity)
    /\ InitSessions({}, "absent", { << >> }, { << >> })
    /\ \/ InitServer({"direct"}, {1}, NumRequests)
       \/ InitServer({"queue"}, {0}, NumRequests)
    /\ InitNoFilter

NextDirect ==
    \E r \in DOMAIN req :
        \/ \E body \in BodiesOf(r) : Post(r, body)
        \/ \E n \in TextLengths : ScrapeReturns(r, n)
        \/ ScrapeThrows(r)

NextQueue ==
    \E r \in DOMAIN req :
        \/ \E body \in BodiesOf(r), added \in BOOLEAN : PostToQueue(r, body, added)
        \/ WorkerTakes(r)
        \/ \E n \in TextLengths : WorkerReturns(r, n)
        \/ WorkerThrows(r)
        \/ JobFinished(r)
        \/ JobTimeout(r)

NextHttp == NextDirect \/ NextQueue

SpecHttp == InitHttp /\ [][NextHttp]_vars

\* the direct server under load: enough requests to fill the slots and the
\* queue and to have one turned away, all alike
Limits == { 1, 2 }     \* the values of MAX_CONCURRENT_REQUESTS tried
PlainBody == Body(GoodUrl, Undefined, Undefined)
LoadLengths == { 5 }
LoadRequests == MAX_QUEUE_SIZE + 3

InitLoad ==
    /\ InitLimiter(LimiterCapacity)
    /\ InitSessions({}, "absent", { << >> }, { << >> })
    /\ InitServer({"direct"}, Limits, LoadRequests)
    /\ InitNoFilter

NextLoad ==
    \E r \in DOMAIN req :
        \/ Post(r, PlainBody)
        \/ \E n \in LoadLengths : ScrapeReturns(r, n)

SpecLoad == InitLoad /\ [][NextLoad]_vars

\* the direct server with a few requests, valid or without a url, that wait
\* their turn; every crawl that was started ends
AdmitRequests == 5
AdmitBodies == { PlainBody, Body(EmptyStr, Undefined, Undefined) }
AdmitLimits == { 0, 1, 2 }   \* MAX_CONCURRENT_REQUESTS=0 in the environment, or 1, or 2

InitAdmit ==
    /\ InitLimiter(LimiterCapacity)
    /\ InitSessions({}, "absent", { << >> }, { << >> })
    /\ InitServer({"direct"}, AdmitLimits, AdmitRequests)
    /\ InitNoFilter

\* scrapeWebsite settles and handleScrapeRequest answers
Finishes(r) == (\E n \in LoadLengths : ScrapeReturns(r, n)) \/ ScrapeThrows(r)

NextAdmit ==
    \E r \in DOMAIN req :
        \/ \E body \in AdmitBodies : Post(r, body)
        \/ \E n \in LoadLengths : ScrapeReturns(r, n)
        \/ ScrapeThrows(r)

\* every started request finishes
SpecAdmit ==
    /\ InitAdmit /\ [][NextAdmit]_vars
    /\ \A r \in 1..AdmitRequests : WF_vars(Finishes(r))

(***************************************************************************)
(* removeCookieSections applied to a text on its own                       *)
(***************************************************************************)
\* the tokens the texts are made of: short and long prose, keywords, white space
Tokens ==
    { Prose(20), Prose(MaxCookieSectionLength - 6), Word("cookie", 6),
      Word("cookies", 7), Word("privacy", 7), Word("policy", 6),
      Word("Accept", 6), Word("All", 3), SP, NL, CR }

FilterTexts == UNION { [1..n -> Tokens] : n \in 0..MaxTokens }

InitFilter ==
    /\ InitLimiter(LimiterCapacity)
    /\ InitSessions({}, "absent", { << >> }, { << >> })
    /\ InitNoServer
    /\ rawText \in FilterTexts
    /\ cleanedText = << >>

\* the call returns
Clean ==
    /\ cleanedText = << >>
    /\ cleanedText' = << removeCookieSections(rawText) >>
    /\ UNCHANGED << rawText, crawlVars, httpVars >>

NextFilter == Clean

SpecFilter == InitFilter /\ [][NextFilter]_vars

(***************************************************************************)
(* The content of the page records: a crawl of two pages, the first with   *)
(* any text, the second with an article of two paragraphs                  *)
(***************************************************************************)
ArticleText == << Prose(20), NL, NL, Prose(20) >>

\* document.body.innerText of the k-th page scraped
InnerText(k) == IF k = 1 THEN rawText ELSE ArticleText

\* cleanedText holds the content of the page records of scrapedData
InitContent == InitFilter

\* processUrl returns the record of the first page, scrapeWebsite pushes it
ScrapeContent ==
    /\ Len(cleanedText) = 0
    /\ cleanedText' = << cleanedContent(InnerText(1)) >>
    /\ UNCHANGED << rawText, crawlVars, httpVars >>

\* the same for the second page
ScrapeArticle ==
    /\ Len(cleanedText) = 1
    /\ cleanedText' = Append(cleanedText, cleanedContent(InnerText(2)))
    /\ UNCHANGED << rawText, crawlVars, httpVars >>

NextContent == ScrapeContent \/ ScrapeArticle

SpecContent == InitContent /\ [][NextContent]_vars

(***************************************************************************)
(* Properties of one crawl                                                 *)
(***************************************************************************)
Done(s) == pc[s] = "done"
Min(a, b) == IF a < b THEN a ELSE b
NoDuplicates(seq) == \A i, j \in 1..Len(seq) : seq[i] = seq[j] => i = j

\* every processUrl call of the session returned a page record, and no link
\* extraction threw
AllFetchesOk(s) ==
    \A k \in 1..Len(settled[s]) : settled[s][k].res \in {"links", "nolinks"}
SomeFetchFailed(s) ==
    \E k \in 1..Len(settled[s]) : settled[s][k].res \in {"null", "rejected"}
FetchedWithLinks(s, u) ==
    \E k \in 1..Len(settled[s]) : settled[s][k].url = u /\ settled[s][k].res = "links"

\* C1 as stated: for every crawl, whatever maxPages is, the returned
\* pagesScraped is at most maxPages and len(urls) = pagesScraped.
C1_AnyBudget ==
    \A s \in Sessions : Done(s) =>
        /\ result[s].pagesScraped <= maxPages[s]
        /\ Len(result[s].urls) = result[s].pagesScraped

\* C1 amended: for every crawl with an integer maxPages >= 0 the returned
\* pagesScraped is at most maxPages; with a negative maxPages it is 0; in
\* every case len(urls) = pagesScraped.
C1_BudgetRespected ==
    \A s \in Sessions : Done(s) =>
        /\ maxPages[s] >= 0 => result[s].pagesScraped <= maxPages[s]
        /\ maxPages[s] < 0 => result[s].pagesScraped = 0
        /\ Len(result[s].urls) = result[s].pagesScraped

\* a crawl that the page budget cut short, with a fetch that failed
C1_Witness ==
    \E s \in Sessions :
        /\ Done(s)
        /\ maxPages[s] = MaxMaxPages
        /\ result[s].pagesScraped = maxPages[s]
        /\ Len(urlQueue[s]) > 0
        /\ SomeFetchFailed(s)

\* C2: no URL appears twice in the returned urls, cyclic links and pages
\* linked from several pages included.
C2_NoUrlTwice ==
    \A s \in Sessions : Done(s) => NoDuplicates(result[s].urls)

\* page 0 and page 1 link to each other, pages 1 and 2 (one batch) both link
\* to page 3, page 2 links back to page 0: all four were scraped
C2_Witness ==
    \E s \in Sessions :
        /\ Done(s)
        /\ FetchedWithLinks(s, P(0)) /\ FetchedWithLinks(s, P(1))
        /\ FetchedWithLinks(s, P(2))
        /\ {P(0), P(1), P(2), P(3)} \subseteq Range(result[s].urls)

\* C6: a session never dispatches a fetch for a URL whose host differs from
\* the host of its seed URL.
C6_SameHostOnly ==
    \A s \in Sessions : \A k \in 1..Len(dispatched[s]) :
        dispatched[s][k].hostname = url[s].hostname

\* a page with links to another host was fetched, its links were extracted
\* and the crawl went on to its next batch
C6_Witness ==
    \E s \in Sessions :
        /\ FetchedWithLinks(s, P(0))
        /\ \E k \in 1..Len(Anchors(P(0))) : Anchors(P(0))[k].hostname # url[s].hostname
        /\ Len(dispatched[s]) > 1

\* the URLs that links lead to from the seed: the seed as given, and the
\* http(s) links to the seed's host without their fragments
SameHostTargets(u, h) ==
    { StripHash(Anchors(u)[k]) : k \in { j \in 1..Len(Anchors(u)) :
        /\ Anchors(u)[j].hostname = h
        /\ Anchors(u)[j].proto \in {"http", "https"} } }
RECURSIVE Closure(_, _)
Closure(found, h) ==
    TheOnly({ IF more = found THEN found ELSE Closure(more, h)
              : more \in { found \cup UNION { SameHostTargets(u, h) : u \in found } } })
Reachable(seed) == Closure({seed}, seed.hostname)

\* C7: when every fetch and link extraction succeeds and maxPages >= 1,
\* pagesScraped = min(maxPages, number of distinct same-host URLs reachable
\* from the seed); a result has fewer than maxPages pages only if a fetch
\* failed or the links ran out.
C7_PagesScraped ==
    \A s \in Sessions : (Done(s) /\ maxPages[s] >= 1) =>
        /\ AllFetchesOk(s) =>
              result[s].pagesScraped = Min(maxPages[s], Cardinality(Reachable(url[s])))
        /\ result[s].pagesScraped < maxPages[s] =>
              (SomeFetchFailed(s) \/ urlQueue[s] = << >>)

\* the seed links to five pages of its host, maxPages = 3: three pages
\* scraped and the rest still in the frontier
C7_Witness ==
    \E s \in Sessions :
        /\ Done(s) /\ AllFetchesOk(s)
        /\ url[s] = P(5) /\ maxPages[s] = 3
        /\ result[s].pagesScraped = 3
        /\ Len(urlQueue[s]) > 0

\* C8: an error during the fetch of a single page never aborts the crawl:
\* scrapeWebsite surfaces no page error to its caller.
C8_PageErrorNotSurfaced ==
    \A s \in Sessions : error[s] # "page"

\* C9: if the browser launch fails, the permit is released, the invocation
\* fails with the launch error, no page is fetched and no result returned.
C9_LaunchFailure ==
    \A s \in Sessions : error[s] = "launch" =>
        /\ pc[s] = "failed"
        /\ grants[s] = 1 /\ releases[s] = 1
        /\ activeLaunches = 0
        /\ browser[s] = "none"
        /\ dispatched[s] = << >>
        /\ result[s] = NoResult

C9_Witness ==
    \E s \in Sessions : error[s] = "launch" /\ releases[s] = 1

(***************************************************************************)
(* Properties of the limiter and of its use by the sessions                *)
(***************************************************************************)
\* permits a caller holds: acquire granted, release not yet called
Held(s) == grants[s] - releases[s]
RECURSIVE SumHeld(_)
SumHeld(S) == IF S = {} THEN 0
              ELSE LET s == CHOOSE x \in S : TRUE IN Held(s) + SumHeld(S \ {s})
HeldPermits == SumHeld(Sessions)

\* C3: under any interleaving of acquire() and release() the permits held at
\* once never exceed the capacity; an acquire() called while all permits are
\* held stays suspended until a holder calls release().
C3_PermitsBounded ==
    /\ [](HeldPermits <= maxConcurrent)
    /\ [][\A c \in Sessions : (pc[c] # "acquired" /\ pc'[c] = "acquired") =>
            IF pc[c] = "waiting"
            THEN \E h \in Sessions \ {c} :
                    pc[h] = "acquired" /\ releases'[h] = releases[h] + 1
            ELSE HeldPermits < maxConcurrent]_vars

\* capacity 2, two holders, a third caller suspended
C3_Witness ==
    /\ maxConcurrent = 2
    /\ Cardinality({ c \in Sessions : pc[c] = "acquired" }) = 2
    /\ \E c \in Sessions : pc[c] = "waiting"

\* C4: every granted acquire() of a session is eventually followed by
\* exactly one release() by that session, on every exit path: no session is
\* granted or releases more than once or releases what it was not granted,
\* and again and again no session holds a permit.
C4_ReleaseFollowsAcquire ==
    /\ [](\A s \in Sessions : releases[s] <= grants[s] /\ grants[s] <= 1)
    /\ []<>(\A s \in Sessions : Held(s) = 0)

\* the permit was released after a fault of the Running phase
C4_Witness ==
    \E s \in Sessions : error[s] = "page" /\ grants[s] = 1 /\ releases[s] = 1

\* C5 as stated: the browsers launched and not yet closed, over all
\* sessions, never exceed the limiter capacity.
C5_OpenBrowsersBounded ==
    Cardinality({ s \in Sessions : browser[s] = "open" }) <= LimiterCapacity

\* C5 amended: the sessions between the launch of their browser and the end
\* of their attempt to close it never exceed the limiter capacity, and each
\* of them holds a permit.
C5_BrowsersInUseBounded ==
    LET inUse == { s \in Sessions : pc[s] \in {"batch", "closing"} }
    IN /\ Cardinality(inUse) <= LimiterCapacity
       /\ \A s \in inUse : browser[s] = "open" /\ Held(s) = 1
       /\ \A s \in Sessions \ inUse : browser[s] = "open" => pc[s] \in {"done", "failed"}

\* all permits in use by sessions with a browser, another session suspended
C5_Witness ==
    /\ Cardinality({ s \in Sessions : pc[s] \in {"batch", "closing"} }) = LimiterCapacity
    /\ \E s \in Sessions : pc[s] = "waiting"

(***************************************************************************)
(* Isolation of concurrent sessions                                        *)
(***************************************************************************)
\* what the fetch of u did in session s, as far as it does not depend on
\* the session's progress: "ok", "linkerr" or "null"
OutcomeOf(s, u) ==
    IF \E k \in 1..Len(settled[s]) : settled[s][k].url = u
    THEN LET k == CHOOSE j \in 1..Len(settled[s]) : settled[s][j].url = u
         IN IF settled[s][k].res \in {"links", "nolinks"} THEN "ok"
            ELSE settled[s][k].res
    ELSE "ok"

\* the crawl of session s run alone: the loop of scrapeWebsite, batch after
\* batch, every fetch with the outcome it had in session s
RECURSIVE AloneFrom(_, _, _, _)
AloneFrom(s, queue, visited, scraped) ==
    TheOnly({
        IF rl.pc = "closing" THEN Aggregate(rl.scraped)
        ELSE TheOnly({
            AloneFrom(s, ar.queue, rl.visited, ar.scraped)
            : ar \in { ApplyResults(rl.batch,
                         [i \in 1..Len(rl.batch) |->
                            IF rl.fetch[i] = SkippedFetch THEN SkippedFetch
                            ELSE [st |-> "fulfilled",
                                  res |-> IF OutcomeOf(s, rl.batch[i]) # "ok"
                                          THEN OutcomeOf(s, rl.batch[i])
                                          ELSE IF WantsLinks(Len(rl.scraped), maxPages[s])
                                               THEN "links" ELSE "nolinks"]],
                         rl.queue, rl.scraped, rl.visited, url[s]) } })
        : rl \in { RunLoop(queue, visited, scraped, maxPages[s], url[s]) } })
ResultAlone(s) == AloneFrom(s, << url[s] >>, {}, << >>)

\* C10: the result of a session that ran concurrently with other sessions
\* is the result it produces alone on the same site with the same fetch
\* outcomes.
C10_SessionsIsolated ==
    \A s \in Sessions : Done(s) => result[s] = ResultAlone(s)

\* both sessions returned a result and both scraped page 1; the crawl of
\* one began while the other had fetches in flight
C10_Witness ==
    /\ \A s \in IsoSessions : Done(s) /\ P(1) \in Range(result[s].urls)
    /\ url[1] # url[2]
    /\ \E s \in IsoSessions : SomeFetchFailed(s)

(***************************************************************************)
(* Properties of the servers                                               *)
(***************************************************************************)
\* request r was answered 200; Sent(r) is the JSON it was answered with
Ok(r) == req[r].st = "responded" /\ req[r].response.status = 200
Sent(r) == req[r].response.body
Status(r) == req[r].response.status

\* C11: in every scrape response, of the direct handler and of the worker,
\* tokenEstimate = ceil(characterCount / 4), and when truncated is true
\* originalTokenEstimate = ceil(originalCharacterCount / 4).
C11_TokenEstimates ==
    \A r \in DOMAIN req : Ok(r) =>
        /\ Sent(r).tokenEstimate = Ceil(Sent(r).characterCount, 4)
        /\ Sent(r).truncated =>
               Sent(r).originalTokenEstimate = Ceil(Sent(r).originalCharacterCount, 4)

\* the maxLength that reaches the aggregation of request r: null, or the
\* request's maxLength clamped to MaxLengthCap
Limit(r) == Validate(req[r].body).maxLengthLimit
Original(r) == Text(Sent(r).text.full)

C13_WithinMaxLength ==
    \A r \in DOMAIN req :
        Ok(r) /\ req[r].body.maxLength # Undefined =>
            Sent(r).characterCount <= parseInt(req[r].body.maxLength).v

\* the handler of request r ran (it was not queued and not turned away)
Started(rq) ==
    \/ rq.st \in {"scraping", "waiting"}
    \/ rq.st = "responded" /\ rq.response.status # 503
TurnedAway(rq) == rq.st = "responded" /\ rq.response.status = 503

InvalidUrl(j) == Falsy(j) \/ ~UrlParses(j)
InvalidMaxPages(j) ==
    j # Undefined /\ (isNaN(parseInt(j)) \/ Less(parseInt(j), 1)
                                         \/ ~Less(parseInt(j), MaxPagesCap + 1))
InvalidMaxLength(j) ==
    j # Undefined /\ (isNaN(parseInt(j)) \/ Less(parseInt(j), 1))
Invalid(body) ==
    InvalidUrl(body.url) \/ InvalidMaxPages(body.maxPages)
                         \/ InvalidMaxLength(body.maxLength)

\* no crawl was started for request r: no scrapeWebsite call, no job
NoCrawl(r) ==
    /\ req[r].crawls = << >>
    /\ r \in DOMAIN job => job[r].st = "none"

\* C15: a POST /scrape whose url is missing or unparsable, whose maxPages
\* is invalid or whose maxLength is invalid is answered 400, and no crawl
\* (no scrapeWebsite call, no job) is started for it.
C15_InvalidRejected ==
    \A r \in DOMAIN req :
        req[r].st # "new" /\ Invalid(req[r].body) =>
            /\ NoCrawl(r)
            /\ req[r].st = "responded" => Status(r) = 400

\* the page budgets handed on for request r: to scrapeWebsite, and to the
\* job queue
BudgetsOf(r) ==
    { req[r].crawls[k].maxPages : k \in 1..Len(req[r].crawls) }
    \cup (IF r \in DOMAIN job /\ job[r].st # "none"
          THEN { job[r].data.maxPages.v } ELSE {})

\* C16: whatever maxPages a request carries (absent, non-numeric, zero,
\* negative, above 50), the page budget handed to the crawl engine or to
\* the job queue is an integer in 1..50, and it is 10 when maxPages is
\* absent.
C16_BudgetClamped ==
    \A r \in DOMAIN req : \A b \in BudgetsOf(r) :
        /\ b \in 1..MaxPagesCap
        /\ req[r].body.maxPages = Undefined => b = HandlerDefaultMaxPages

\* a request with maxPages above 50 crawls with 50, one without maxPages
\* with 10
C16_Witness ==
    \E r, q \in DOMAIN req :
        /\ req[r].body.maxPages = Num(MaxPagesCap + 1) /\ BudgetsOf(r) = { MaxPagesCap }
        /\ req[q].body.maxPages = Undefined /\ BudgetsOf(q) = { HandlerDefaultMaxPages }

(***************************************************************************)
(* Properties of the Noise Filter                                          *)
(***************************************************************************)
Cleaned == cleanedText # << >>
LineBreak(tok) == tok \in {NL, CR}

\* the text is one section: nothing to trim and no blank line in it
OneSection(t) ==
    /\ t # << >> /\ ~IsWs(t[1]) /\ ~IsWs(t[Len(t)])
    /\ \A i \in 1..(Len(t) - 1) : ~(LineBreak(t[i]) /\ LineBreak(t[i + 1]))

\* the places of the text where a keyword of the pattern set stands
Mentions(t) ==
    { i \in 1..Len(t) :
        \E k \in 1..Len(COOKIE_PATTERNS) : MatchAt(COOKIE_PATTERNS[k], t, i) }

\* C17: a section of at most 1200 characters that contains any keyword of
\* the pattern set is removed entirely, and a longer section that mentions
\* such a keyword only once is retained, changed only by the whitespace
\* normalisation.
C17_SingleSections ==
    Cleaned /\ OneSection(rawText) =>
        /\ Chars(rawText) <= MaxCookieSectionLength /\ Mentions(rawText) # {} =>
              cleanedText[1] = << >>
        /\ Chars(rawText) > MaxCookieSectionLength
                /\ Cardinality(Mentions(rawText)) = 1 =>
              cleanedText[1] = CollapseSpace(rawText)

(***************************************************************************)
(* Properties of the batches and of the frontier                           *)
(***************************************************************************)
\* the processUrl calls of session s that have not settled
InFlightCalls(s) ==
    { i \in 1..Len(fetch[s]) : fetch[s][i].st \in {"newPage", "page", "closing"} }
InFlightCount(s) == Cardinality(InFlightCalls(s))

\* C18: at most maxConcurrency (3) processUrl calls of a session are in
\* flight at any time, and while a batch is awaited the session neither
\* pulls from urlQueue nor changes urlQueue or scrapedData before every call
\* of the batch has completed: a step that changes them is the step in
\* which the last call of the batch settles.
C18_BatchBarrier ==
    /\ [](\A s \in Sessions : InFlightCount(s) <= maxConcurrency)
    /\ [][\A s \in Sessions :
            /\ pc[s] = "batch"
            /\ \/ urlQueue'[s] # urlQueue[s]
               \/ scrapedData'[s] # scrapedData[s]
               \/ urlsToProcess'[s] # urlsToProcess[s]
            => /\ InFlightCount(s) = 1
               /\ Len(settled'[s]) = Len(settled[s]) + 1
               /\ \A i \in 1..Len(fetch[s]) :
                     fetch[s][i].st \in {"closing", "fulfilled"}]_vars

\* a full batch in flight after an earlier batch was collected
C18_Witness ==
    \E s \in Sessions :
        InFlightCount(s) = maxConcurrency /\ Len(scrapedData[s]) > 0

\* C19 as stated: in every reachable state of a session, collected page
\* records plus in-flight fetches are at most maxPages.
C19_AnyBudget ==
    \A s \in Sessions : Len(scrapedData[s]) + InFlightCount(s) <= maxPages[s]

\* C19 amended: in every reachable state of a session with maxPages >= 0,
\* collected page records plus in-flight fetches are at most maxPages; with
\* a negative maxPages nothing is fetched or collected.
C19_WithinBudget ==
    \A s \in Sessions :
        Len(scrapedData[s]) + InFlightCount(s) <=
            (IF maxPages[s] >= 0 THEN maxPages[s] ELSE 0)

\* the budget is used up by the records collected and a batch in flight
C19_Witness ==
    \E s \in Sessions :
        /\ Len(scrapedData[s]) > 0 /\ InFlightCount(s) > 1
        /\ Len(scrapedData[s]) + InFlightCount(s) = maxPages[s]

\* C20 as stated: a link is enqueued only while the page budget is not
\* reached by collected plus queued URLs, so collected + queued never
\* exceeds maxPages (for a session with a budget of at least one page).
C20_FrontierWithinBudget ==
    \A s \in Sessions :
        maxPages[s] >= 1 => Len(scrapedData[s]) + Len(urlQueue[s]) <= maxPages[s]

\* C20 amended: urlQueue holds no URL twice, and a link is enqueued only if
\* it is not visited, not already queued, and the page it comes from was
\* fetched while collected + 1 < maxPages; the queue is not cut to the
\* budget (collected + queued may exceed maxPages).
C20_EnqueueGuard ==
    /\ [](\A s \in Sessions : NoDuplicates(urlQueue[s]))
    /\ [][\A s \in Sessions : pc[s] = "batch" =>
            \A u \in Range(urlQueue'[s]) \ Range(urlQueue[s]) :
                /\ u \notin visitedUrls[s]
                /\ Len(scrapedData[s]) + 1 < maxPages[s]
                /\ \E i \in 1..Len(urlsToProcess[s]) :
                      Includes(extractSameDomainLinks(urlsToProcess[s][i], url[s]), u)]_vars

\* links were enqueued beyond what the budget needs
C20_Witness ==
    \E s \in Sessions :
        /\ maxPages[s] >= 1 /\ Len(scrapedData[s]) >= 1
        /\ Len(scrapedData[s]) + Len(urlQueue[s]) > maxPages[s]

(***************************************************************************)
(* Properties of the visited set and of the page fetches                   *)
(***************************************************************************)
\* the processUrl calls of session s that settled without a page record
FailedFetches(s) ==
    { k \in 1..Len(settled[s]) : settled[s][k].res \in {"null", "rejected"} }

\* C21: within one session no URL is dispatched to processUrl's fetch more
\* than once: the URL of every fetch in flight is visited, visitedUrls only
\* grows, a URL whose fetch failed stays visited, is not in urlQueue again
\* and was dispatched once, whichever pages link to it.
C21_DispatchedOnce ==
    /\ [](\A s \in Sessions :
            /\ NoDuplicates(dispatched[s])
            /\ Range(dispatched[s]) \subseteq visitedUrls[s]
            /\ \A i \in InFlightCalls(s) : urlsToProcess[s][i] \in visitedUrls[s]
            /\ \A k \in FailedFetches(s) :
                  /\ settled[s][k].url \in visitedUrls[s]
                  /\ ~Includes(urlQueue[s], settled[s][k].url))
    /\ [][\A s \in Sessions :
            /\ visitedUrls[s] \subseteq visitedUrls'[s]
            /\ \A k \in FailedFetches(s) :
                  ~Includes(SubSeq(dispatched'[s], Len(dispatched[s]) + 1,
                                   Len(dispatched'[s])), settled[s][k].url)]_vars

\* the fetch of a page failed, and two pages fetched after it link to it
C21_Witness ==
    \E s \in Sessions : \E k \in FailedFetches(s) :
        /\ Done(s)
        /\ Cardinality({ j \in (k + 1)..Len(settled[s]) :
              /\ settled[s][j].res = "links"
              /\ Includes(extractSameDomainLinks(settled[s][j].url, url[s]),
                          settled[s][k].url) }) >= 2

\* the processUrl calls of session s that settled after they had opened a page
PageOpened(s) == { k \in 1..Len(settled[s]) : settled[s][k].page # "none" }

\* a processUrl call settles only from `await browser.newPage()` (no page was
\* opened) or from `await page.close()` in the finally block
SettlesAfterClose ==
    \A s \in Sessions : Len(settled'[s]) > Len(settled[s]) =>
        /\ Len(settled'[s]) = Len(settled[s]) + 1
        /\ \E i \in InFlightCalls(s) :
              /\ settled'[s][Len(settled'[s])].url = urlsToProcess[s][i]
              /\ fetch[s][i].st \in {"newPage", "closing"}
              /\ fetch[s][i].st = "newPage" <=> settled'[s][Len(settled'[s])].page = "none"

\* C22 as stated: every page opened by a processUrl call is closed exactly
\* once before that call completes, on every exit path (success, extraction
\* error, navigation timeout).
C22_PageClosed ==
    /\ [](\A s \in Sessions : \A k \in PageOpened(s) : settled[s][k].page = "closed")
    /\ [][SettlesAfterClose]_vars

\* C22 amended: every processUrl call that opened a page calls page.close()
\* exactly once and completes only when that close has settled, on every
\* exit path; the page is closed whenever page.close() resolved, and it can
\* be left open only when page.close() itself rejected, in which case the
\* call rejects.
C22_PageCloseCalled ==
    /\ [](\A s \in Sessions :
            /\ \A k \in PageOpened(s) :
                  settled[s][k].page = "open" => settled[s][k].res = "rejected"
            /\ \A j, k \in 1..Len(settled[s]) :
                  settled[s][j].url = settled[s][k].url => j = k)
    /\ [][SettlesAfterClose]_vars

\* one crawl in which a page was closed after a success, one after a failed
\* link extraction and one after an error caught in the try block
C22_Witness ==
    \E s \in Sessions :
        /\ Done(s)
        /\ \A r \in {"links", "linkerr", "null"} :
              \E k \in PageOpened(s) :
                  settled[s][k].res = r /\ settled[s][k].page = "closed"

(***************************************************************************)
(* Order of the permits                                                    *)
(***************************************************************************)
\* the callers whose acquire() promise resolves in this step
Granted == { c \in Sessions : grants'[c] = grants[c] + 1 }

\* C23: suspended callers are queued in the order of their acquire() calls;
\* a release() called while callers are suspended hands the freed slot in
\* the same step to the caller that waited longest and to no other, and
\* while a caller is suspended every permit is taken, so that a later
\* acquire() is queued behind it and obtains nothing ahead of it.
C23_FifoHandOver ==
    /\ [](Len(waitQueue) > 0 => activeLaunches >= maxConcurrent)
    /\ [](\A k \in 1..Len(waitQueue) : pc[waitQueue[k]] = "waiting")
    /\ [][/\ waitQueue # << >> =>
               /\ Granted \subseteq { Head(waitQueue) }
               /\ \/ waitQueue' = waitQueue
                  \/ \E c \in Sessions \ Range(waitQueue) :
                        waitQueue' = Append(waitQueue, c)
                  \/ /\ waitQueue' = Tail(waitQueue)
                     /\ Granted = { Head(waitQueue) }
                     /\ pc'[Head(waitQueue)] = "acquired"
                     /\ \E h \in Sessions : releases'[h] = releases[h] + 1
          /\ (\E h \in Sessions : releases'[h] = releases[h] + 1) /\ waitQueue # << >>
               => waitQueue' = Tail(waitQueue) /\ Granted = { Head(waitQueue) }]_vars

\* two callers are suspended while a caller that released before holds a
\* permit again
C23_Witness ==
    /\ Len(waitQueue) >= 2
    /\ \E c \in Sessions : pc[c] = "acquired" /\ releases[c] >= 1

(***************************************************************************)
(* Order of the result                                                     *)
(***************************************************************************)
\* the place of URL u in the order in which the calls of session s settled
SettledAt(s, u) == CHOOSE k \in 1..Len(settled[s]) : settled[s][k].url = u

\* the fetch of u returned a page record
Scraped(s, u) ==
    \E k \in 1..Len(settled[s]) :
        settled[s][k].url = u /\ settled[s][k].res \in {"links", "nolinks", "linkerr"}

\* C24 as stated: urls lists the scraped pages in completion order: if the
\* fetch of X completed before the fetch of Y, X precedes Y in urls.
C24_CompletionOrder ==
    \A s \in Sessions : Done(s) =>
        \A i, j \in 1..Len(result[s].urls) :
            i < j => SettledAt(s, result[s].urls[i]) < SettledAt(s, result[s].urls[j])

\* C24 amended: urls lists the scraped pages in the order in which their
\* fetches were dispatched: batch after batch, and within a batch in the
\* order in which the URLs were pulled from the frontier, whatever the order
\* in which the fetches of the batch completed.
C24_DispatchOrder ==
    \A s \in Sessions : Done(s) =>
        result[s].urls = SelectSeq(dispatched[s], LAMBDA u : Scraped(s, u))

\* two pages of one batch completed in the reverse of their order in urls
C24_Witness ==
    \E s \in Sessions :
        /\ Done(s)
        /\ \E i, j \in 1..Len(result[s].urls) :
              /\ i < j
              /\ SettledAt(s, result[s].urls[i]) > SettledAt(s, result[s].urls[j])

(***************************************************************************)
(* Order of the traversal                                                  *)
(***************************************************************************)
\* seq begins with pre
IsPrefix(pre, seq) == Len(pre) <= Len(seq) /\ SubSeq(seq, 1, Len(pre)) = pre

\* every URL that entered urlQueue: those pulled and dispatched, then those
\* still queued
Enqueued(s) == dispatched[s] \o urlQueue[s]

\* the pages whose extracted links hold u
Discoverers(s, u) ==
    { k \in 1..Len(dispatched[s]) :
        /\ FetchedWithLinks(s, dispatched[s][k])
        /\ Includes(extractSameDomainLinks(dispatched[s][k], url[s]), u) }

\* the link depths at which session s first discovered the first k URLs of
\* Enqueued(s): 0 for the seed, one more than the depth of the first page
\* that led to it for any other URL
RECURSIVE Depths(_, _)
Depths(s, k) ==
    IF k = 0 THEN << >>
    ELSE TheOnly({
        Append(ds, IF Enqueued(s)[k] = url[s] \/ d = {} THEN 0
                   ELSE TheOnly({ IF first < k THEN 1 + ds[first] ELSE -1
                                  : first \in { j \in d : \A i \in d : j <= i } }))
        : ds \in { Depths(s, k - 1) }, d \in { Discoverers(s, Enqueued(s)[k]) } })
Depth(s) == Depths(s, Len(Enqueued(s)))

\* C25: urlQueue is a FIFO queue and the traversal is breadth-first: the
\* sequence of the URLs dispatched, followed by the URLs queued, only grows
\* at its end, so URLs are dispatched in the order in which they were first
\* enqueued; and along that sequence the depth of discovery never decreases.
C25_BreadthFirst ==
    /\ [](\A s \in Sessions :
            /\ NoDuplicates(Enqueued(s))
            /\ \A depth \in { Depth(s) } :
                  \A k \in 1..(Len(depth) - 1) : depth[k] <= depth[k + 1])
    /\ [][\A s \in Sessions :
            pc[s] # "start" => IsPrefix(Enqueued(s), Enqueued(s)')]_vars

\* pages of depth 0, 1, 2 and 3 were dispatched, two of them in one batch
C25_Witness ==
    \E s \in Sessions :
        /\ Done(s)
        /\ Range(Depth(s)) = 0..3
        /\ Len(dispatched[s]) > 4

(***************************************************************************)
(* Form of the URLs of the result                                          *)
(***************************************************************************)
\* the URL string carries no "#fragment"
FragmentStripped(u) == u.frag = FALSE

\* C26: the url of every page record, and so every entry of the result's
\* urls, is in canonical form with the fragment stripped, the record of the
\* seed page included.
C26_UrlsCanonical ==
    \A s \in Sessions :
        /\ \A k \in 1..Len(scrapedData[s]) : FragmentStripped(scrapedData[s][k])
        /\ Done(s) => \A k \in 1..Len(result[s].urls) :
                          FragmentStripped(result[s].urls[k])

(***************************************************************************)
(* The Noise Filter and repeated keywords                                  *)
(***************************************************************************)
\* C27: a section in which keywords of the pattern set occur two or more
\* times is dropped whatever its length, and a section longer than 1200
\* characters in which they occur fewer than two times is kept.
C27_RepeatedKeywords ==
    Cleaned /\ OneSection(rawText) =>
        /\ Cardinality(Mentions(rawText)) >= 2 => cleanedText[1] = << >>
        /\ Chars(rawText) > MaxCookieSectionLength
                /\ Cardinality(Mentions(rawText)) < 2 =>
              cleanedText[1] = CollapseSpace(rawText)

(***************************************************************************)
(* A seed URL that cannot be parsed                                        *)
(***************************************************************************)
\* the seed of session s is a string that `new URL(url)` rejects
Unparsable(s) == url[s] = BadUrl

\* C28: scrapeWebsite called with a seed URL that cannot be parsed fails
\* before any crawl work begins and leaves the limiter unchanged: no permit
\* is acquired, the caller is not enqueued, no browser is launched and no
\* page is fetched.
C28_UnparsableSeed ==
    /\ [](\A s \in Sessions : (Unparsable(s) /\ pc[s] \notin {"start", "absent", "idle"}) =>
            /\ pc[s] = "failed" /\ error[s] = "url"
            /\ grants[s] = 0 /\ releases[s] = 0
            /\ ~Includes(waitQueue, s)
            /\ browser[s] = "none"
            /\ dispatched[s] = << >> /\ settled[s] = << >>
            /\ result[s] = NoResult)
    /\ [][\A s \in Sessions :
            (Unparsable(s) /\ pc[s] = "start" /\ pc'[s] # "start") =>
                UNCHANGED limiterVars]_vars

\* the call with an unparsable seed has failed
C28_Witness ==
    \E s \in Sessions : Unparsable(s) /\ pc[s] = "failed" /\ error[s] = "url"

(***************************************************************************)
(* Independence of the order of completions                                *)
(***************************************************************************)
Finished(s) == pc[s] \in {"done", "failed"}

\* what the fetch of a URL met, apart from the session's own decision to
\* extract links or not
Met(res) == IF res \in {"links", "nolinks"} THEN "ok" ELSE res

\* two outcomes that one and the same page can have given: equal, or link
\* extraction failing in one run and not attempted in the other
SameOutcome(a, b) ==
    \/ Met(a) = Met(b)
    \/ {a, b} = {"nolinks", "linkerr"}

\* the two runs met the same outcome at every URL that both fetched
SameOutcomes ==
    \A j \in 1..Len(settled[1]) : \A k \in 1..Len(settled[2]) :
        settled[1][j].url = settled[2][k].url =>
            SameOutcome(settled[1][j].res, settled[2][k].res)

\* the URLs of the fetches of a run in the order in which they completed
CompletionOrder(s) == [k \in 1..Len(settled[s]) |-> settled[s][k].url]

\* C29: for a fixed site and fixed per-URL fetch outcomes the result of a
\* session does not depend on the order in which the fetches of a batch
\* complete: two runs of the same crawl whose browsers launched and whose
\* fetches met the same outcomes end alike, with the same urls in the same
\* order and the same pagesScraped, or both with the error of a page.
C29_OrderIndependent ==
    (/\ \A s \in IsoSessions : Finished(s) /\ error[s] # "launch"
     /\ SameOutcomes)
    => /\ pc[1] = pc[2]
       /\ result[1] = result[2]
       /\ error[1] = error[2]

\* both runs returned three pages, one fetch having failed, and the fetches
\* of their batches completed in different orders
C29_Witness ==
    /\ \A s \in IsoSessions : Done(s) /\ SomeFetchFailed(s)
    /\ SameOutcomes
    /\ result[1].pagesScraped = 3
    /\ Range(CompletionOrder(1)) = Range(CompletionOrder(2))
    /\ CompletionOrder(1) # CompletionOrder(2)

(***************************************************************************)
(* The session at the release of its permit                                *)
(***************************************************************************)
\* C30: at the moment a session releases its permit, none of its processUrl
\* calls is still in flight (and so none of their pages still open), on
\* every exit path of the session, a fault raised by one fetch of a batch
\* included.
C30_QuietAtRelease ==
    [][\A s \in Sessions : releases'[s] = releases[s] + 1 =>
          InFlightCount(s) = 0]_vars

(***************************************************************************)
(* The frontier at the batch boundaries                                    *)
(***************************************************************************)
\* the session at the head of its outer while loop
AtBoundary(queue, visited, scraped) ==
    [queue |-> queue, visited |-> visited, scraped |-> scraped]

\* the last processUrl call of the batch is about to fulfil, every other
\* call has: Promise.all resolves with the next step of the session
LastCall(s, i) ==
    /\ pc[s] = "batch"
    /\ InFlight(s, i, "closing")
    /\ \A j \in 1..Len(fetch[s]) : j # i => fetch[s][j].st = "fulfilled"

\* the states in which the session's next step stands at the head of the
\* outer while loop: the first time after the launch, then after the
\* results of each batch are applied
Boundaries(s) ==
    IF pc[s] = "acquired"
    THEN { AtBoundary(urlQueue[s], visitedUrls[s], scrapedData[s]) }
    ELSE { TheOnly({ AtBoundary(ar.queue, visitedUrls[s], ar.scraped)
               : ar \in { ApplyResults(urlsToProcess[s],
                                       [fetch[s] EXCEPT ![i].st = "fulfilled"],
                                       urlQueue[s], scrapedData[s],
                                       visitedUrls[s], url[s]) } })
           : i \in { j \in 1..Len(fetch[s]) : LastCall(s, j) } }

\* both skip-if-visited checks let every URL pass: the inner while loop
\* moves a prefix of the queue into the batch, and processUrl opens a page
\* for every URL of the batch
NothingDiscarded(b, budget) ==
    \E pb \in { PullBatch(b.queue, << >>, b.visited, Len(b.scraped), budget) } :
        /\ pb.batch \o pb.queue = b.queue
        /\ Dispatch(pb.batch, b.visited).opened = pb.batch

\* C31: the frontier queue never holds a URL twice nor a URL of the visited
\* set, in particular at every batch boundary; and from a batch boundary
\* neither the skip-if-visited check of the pull nor the one at the start
\* of processUrl discards a URL: every URL pulled is dispatched
C31_FrontierClean ==
    \A s \in Sessions :
        /\ NoDuplicates(urlQueue[s])
        /\ Range(urlQueue[s]) \cap visitedUrls[s] = {}
        /\ \A b \in Boundaries(s) :
              /\ NoDuplicates(b.queue)
              /\ Range(b.queue) \cap b.visited = {}
              /\ NothingDiscarded(b, maxPages[s])

\* a batch boundary after a page whose links were partly refused (one is
\* visited, one is queued already), with two URLs or more to pull
C31_Witness ==
    \E s \in Sessions : \E b \in Boundaries(s) :
        /\ pc[s] = "batch"
        /\ Len(b.queue) >= 2
        /\ Len(b.scraped) + 1 < maxPages[s]
        /\ \E i \in 1..Len(fetch[s]) :
              /\ fetch[s][i].res = "links"
              /\ \E l \in Range(extractSameDomainLinks(urlsToProcess[s][i], url[s])) :
                    l \in visitedUrls[s]
              /\ \E l \in Range(extractSameDomainLinks(urlsToProcess[s][i], url[s])) :
                    Includes(urlQueue[s], l)

(***************************************************************************)
(* The limiter is work-conserving                                          *)
(***************************************************************************)
\* the callers suspended in acquire()
Suspended == { c \in Sessions : pc[c] = "waiting" }

\* C32: with release() called by holders of a permit only, activeLaunches
\* stays within 0..maxConcurrent and counts the permits held; while a caller is
\* suspended activeLaunches equals maxConcurrent (no caller waits while a
\* slot is free); and the suspended callers are those of waitQueue, each
\* once (no wake-up is lost: a caller taken from the queue is resumed).
C32_WorkConserving ==
    /\ 0 <= activeLaunches /\ activeLaunches <= maxConcurrent
    /\ activeLaunches = HeldPermits
    /\ Suspended # {} => activeLaunches = maxConcurrent
    /\ Range(waitQueue) = Suspended
    /\ NoDuplicates(waitQueue)

\* every permit is held, and a caller that held one before waits again
\* behind another caller
C32_Witness ==
    /\ activeLaunches = maxConcurrent
    /\ Len(waitQueue) >= 2
    /\ \E c \in Suspended : releases[c] >= 1 /\ waitQueue[Len(waitQueue)] = c

(***************************************************************************)
(* A seed page whose fetch fails                                           *)
(***************************************************************************)
\* the fetch of the seed page threw inside the try of processUrl (a
\* navigation timeout, an extraction error) and was caught
SeedFetchFailed(s) ==
    /\ dispatched[s] = << url[s] >>
    /\ \/ settled[s] # << >> /\ settled[s][1].res = "null"
       \/ /\ urlsToProcess[s] = << url[s] >>
          /\ fetch[s][1].res = "null"
          /\ fetch[s][1].st \in {"closing", "rejected"}

\* C33: if the fetch of the seed page fails, scrapeWebsite does not fail:
\* once it has ended (browser.close() called) it has released its permit and
\* returned a result with pagesScraped = 0 and no urls.
C33_SeedFailureAbsorbed ==
    \A s \in Sessions : SeedFetchFailed(s) /\ Finished(s) =>
        /\ pc[s] = "done"
        /\ error[s] = "none"
        /\ releases[s] = 1
        /\ result[s] = Aggregate(<< >>)

(***************************************************************************)
(* The content of a page is kept whole or dropped whole                    *)
(***************************************************************************)
\* the patterns of COOKIE_PATTERNS that match the text
MatchingPatterns(t) ==
    { k \in 1..Len(COOKIE_PATTERNS) : Test(COOKIE_PATTERNS[k], t) }

\* a page text with a cookie banner in it: a keyword in at most 1200
\* characters, or two matching patterns in a text of any length
HoldsBanner(t) ==
    \/ MatchingPatterns(t) # {} /\ Chars(t) <= MaxCookieSectionLength
    \/ Cardinality(MatchingPatterns(t)) >= 2

StartedNow == { r \in DOMAIN req : ~Started(req[r]) /\ Started(req'[r]) }

\* the queue holds the queued requests oldest first (requests are numbered
\* in the order of their arrival); a step takes requests from its head or
\* adds the arriving one at its end; and no request is started while a
\* request that arrived before it stays queued
QueueOrder ==
    /\ [](/\ Range(requestQueue) = { r \in DOMAIN req : req[r].st = "queued" }
          /\ \A i, j \in 1..Len(requestQueue) :
                i < j => requestQueue[i] < requestQueue[j])
    /\ [][/\ \E k \in 0..Len(requestQueue) :
                /\ \/ requestQueue' = SubSeq(requestQueue, k + 1, Len(requestQueue))
                   \/ k = 0 /\ \E r \in DOMAIN req :
                         req[r].st = "new" /\ requestQueue' = Append(requestQueue, r)
                /\ { requestQueue[i] : i \in 1..k } \subseteq StartedNow
          /\ \A r \in StartedNow : \A q \in 1..(r - 1) : req'[q].st # "queued"]_vars

\* C35 as stated: the queued requests are started in the order of their
\* arrival, no arriving request is started while an earlier one is queued,
\* and every queued request is started in the end, given that every started
\* request finishes.
C35_AnyLimit ==
    /\ QueueOrder
    /\ \A r \in 1..AdmitRequests : (req[r].st = "queued" ~> Started(req[r]))

\* C35: the queued requests are started in the order of their arrival, no
\* arriving request is started while an earlier one is queued, and, where
\* MAX_CONCURRENT_REQUESTS is 1 or more, every queued request is started in
\* the end, given that every started request finishes.
C35_FifoAdmission ==
    /\ QueueOrder
    /\ \A r \in 1..AdmitRequests :
          (MAX_CONCURRENT_REQUESTS >= 1 /\ req[r].st = "queued") ~> Started(req[r])

\* three requests wait in the order they came, behind a crawl that has
\* been taken from the queue itself
C35_Witness ==
    /\ Len(requestQueue) = 3
    /\ \E r \in DOMAIN req :
          /\ req[r].st = "scraping"
          /\ r > MAX_CONCURRENT_REQUESTS
          /\ \E q \in 1..(r - 1) : req[q].response.status = 200

====
